---- MODULE Spec2Model ----
(***************************************************************************)
(* Model of the measurexlite connection tracing code: the trace-aware      *)
(* net.Conn and UDPLikeConn wrappers, the buffered networkEvent channel of *)
(* the Trace, the bytes-received map and its mutex, and the two functions  *)
(* that drain the channel.  Each goroutine runs one call at a time; a call *)
(* is split into the steps at which it touches shared state (the clock,    *)
(* the channel, the mutex, the map) so that every interleaving the Go      *)
(* scheduler can produce is a behaviour of the model.                      *)
(*                                                                         *)
(* The module also models netxlite's UTLSConn: HandshakeContext, with the  *)
(* goroutine it starts, its result channel and the context it is given,    *)
(* and NewUTLSConn with its check of the fields of the tls.Config.         *)
(***************************************************************************)
EXTENDS Integers, Sequences, FiniteSets, TLC

(***************************************************************************)
(* Bounds of the model.                                                    *)
(***************************************************************************)
\* Capacity of the buffered networkEvent channel (make(chan ..., N)).
NetworkEventBufferSize == 2
\* Calls the goroutines of the concurrent specification may start in all.
MaxCalls == 3
\* Calls the single goroutine of the sequential specification may start.
MaxSeqCalls == 3
\* Calls the goroutine of the accounting specification may start.
MaxAccountingCalls == 3
\* Capacity of the channel, and the calls the goroutines may start in all,
\* in the specification with fairness.
FairBufferSize == 1
MaxFairCalls == 2
\* Calls the goroutines of the concurrent accounting specification may
\* start in all.
MaxConcurrentAccountingCalls == 4
\* Calls of HandshakeContext, made one after the other.
MaxHandshakes == 1
\* Calls of the wrappers the goroutine of the event specification may start.
MaxEventCalls == 2
\* Addresses in the maps ipInfoToEndpoints is given.
MaxAddresses == 3
\* Calls the goroutines that read and drain may start in all.
MaxDrainCalls == 4
\* Calls the goroutines that read, drain and clone may start in all.
MaxInterleavedCalls == 4

\* The goroutines that use the Trace concurrently.
Goroutines == {"g1", "g2"}
\* The goroutine of the sequential and of the accounting specification.
Owner == "g1"

(***************************************************************************)
(* Values.                                                                 *)
(***************************************************************************)
\* A net.Addr: nil, or a value with its Network() and String().
NilAddr == [isNil |-> TRUE, network |-> "", string |-> ""]
Addr(n, s) == [isNil |-> FALSE, network |-> n, string |-> s]

\* Go's nil error.
NoError == "<nil>"

\* A []string: the nil slice, or a slice with its items; array is the
\* array that holds the items.  Tags(s) is a slice the Trace was made with.
NilTags == [isNil |-> TRUE, items |-> <<>>, array |-> "none"]
Tags(s) == [isNil |-> FALSE, items |-> s, array |-> "tx.tags"]

\* The inputs the environment draws from, per specification: the budget of
\* calls, the remote addresses of the wrapped stream connections, the peers
\* WriteTo is given, what the underlying Read, Write and WriteTo return
\* (results) and what the underlying ReadFrom returns (datagrams), the last
\* instant of the clock, and the arguments of direct calls of
\* updateBytesReceivedMapNetConn.  Time passes while an underlying call
\* runs: the clock may have advanced, up to lastInstant, when it returns.
\* The concurrent specifications explore the interleavings within one
\* instant; in the sequential one the clock advances.
Result(c, e) == [count |-> c, err |-> e]
Datagram(c, a, e) == [count |-> c, addr |-> a, err |-> e]

ConcurrentInputs ==
  [ budget      |-> MaxCalls,
    remotes     |-> {Addr("tcp", "1.2.3.4:443")},
    peers       |-> {Addr("udp", "8.8.8.8:53")},
    results     |-> {Result(2, NoError), Result(0, "EOF")},
    datagrams   |-> {Datagram(2, Addr("udp", "8.8.8.8:53"), NoError),
                     Datagram(0, NilAddr, "EOF")},
    lastInstant |-> 0,
    networks    |-> {},
    addresses   |-> {},
    amounts     |-> {} ]

FairInputs == [ConcurrentInputs EXCEPT !.budget = MaxFairCalls]

SequentialInputs ==
  [ budget      |-> MaxSeqCalls,
    remotes     |-> {Addr("tcp4", "1.2.3.4:443")},
    peers       |-> {Addr("udp", "8.8.8.8:53"), Addr("udp", "8.8.4.4:53")},
    results     |-> {Result(2, NoError), Result(0, "EOF"), Result(2, "EOF")},
    datagrams   |-> {Datagram(2, Addr("udp", "8.8.8.8:53"), NoError),
                     Datagram(2, Addr("udp4", "8.8.4.4:53"), NoError),
                     Datagram(2, Addr("udp", "8.8.8.8:53"), "EOF"),
                     Datagram(0, NilAddr, "EOF")},
    lastInstant |-> 1,
    networks    |-> {},
    addresses   |-> {},
    amounts     |-> {} ]

AccountingInputs ==
  [ budget      |-> MaxAccountingCalls,
    remotes     |-> {},
    peers       |-> {},
    results     |-> {},
    datagrams   |-> {},
    lastInstant |-> 0,
    networks    |-> {"tcp", "tcp4", "tcp6", "udp", "udp4", "udp6", "unix"},
    addresses   |-> {"1.2.3.4:443", "8.8.8.8:53"},
    amounts     |-> {50, 100} ]

ConcurrentAccountingInputs ==
  [ budget      |-> MaxConcurrentAccountingCalls,
    remotes     |-> {},
    peers       |-> {},
    results     |-> {},
    datagrams   |-> {},
    lastInstant |-> 0,
    networks    |-> {"tcp4", "tcp6", "udp"},
    addresses   |-> {"1.2.3.4:443"},
    amounts     |-> {50, 100} ]

EventInputs ==
  [ budget      |-> MaxEventCalls,
    remotes     |-> {Addr("tcp4", "1.2.3.4:443")},
    peers       |-> {Addr("udp", "8.8.8.8:53")},
    results     |-> {Result(2, NoError), Result(0, "EOF")},
    datagrams   |-> {Datagram(2, Addr("udp", "8.8.8.8:53"), NoError),
                     Datagram(0, NilAddr, "EOF")},
    lastInstant |-> 2,
    networks    |-> {},
    addresses   |-> {},
    amounts     |-> {} ]

\* The operations the callers of NewAnnotationArchivalNetworkEvent name.
AnnotationOperations == {"http_transaction_start", "http_transaction_done"}

InterleavedInputs ==
  [ budget      |-> MaxInterleavedCalls,
    remotes     |-> {Addr("tcp", "1.2.3.4:443"), Addr("tcp", "5.6.7.8:443")},
    peers       |-> {},
    results     |-> {Result(2, NoError)},
    datagrams   |-> {},
    lastInstant |-> 0,
    networks    |-> {},
    addresses   |-> {},
    amounts     |-> {} ]

DrainInputs ==
  [ budget      |-> MaxDrainCalls,
    remotes     |-> {Addr("tcp", "1.2.3.4:443")},
    peers       |-> {},
    results     |-> {Result(2, NoError)},
    datagrams   |-> {},
    lastInstant |-> 0,
    networks    |-> {},
    addresses   |-> {},
    amounts     |-> {} ]

\* netxlite operation tags.
ReadOperation == "read"
WriteOperation == "write"
ReadFromOperation == "read_from"
WriteToOperation == "write_to"

\* Names of the calls a goroutine can be in.
OpNone == "none"
OpRead == "connTrace.Read"
OpWrite == "connTrace.Write"
OpReadFrom == "udpLikeConnTrace.ReadFrom"
OpWriteTo == "udpLikeConnTrace.WriteTo"
OpNetworkEvents == "Trace.NetworkEvents"
OpFirstNetworkEventOrNil == "Trace.FirstNetworkEventOrNil"
OpClone == "Trace.CloneBytesReceivedMap"
OpUpdate == "Trace.updateBytesReceivedMapNetConn"
IOOps == {OpRead, OpWrite, OpReadFrom, OpWriteTo}
DrainOps == {OpNetworkEvents, OpFirstNetworkEventOrNil}

VARIABLES
  capacity,          \* cap(Trace.networkEvent)
  Index,             \* Trace.Index
  ZeroTime,          \* Trace.ZeroTime
  tags,              \* Trace.tags
  networkEvent,      \* Trace.networkEvent: the buffered channel's contents
  bytesReceivedMap,  \* Trace.bytesReceivedMap
  bytesReceivedMu,   \* Trace.bytesReceivedMu: the goroutine holding it, or Unlocked
  clock,             \* the wall clock Trace.TimeSince reads
  pc,                \* where each goroutine is in its call
  loc,               \* each goroutine's local variables
  ret,               \* what each goroutine's last call returned
  ncalls,            \* history: calls started
  calls,             \* history: the underlying I/O calls, in the order they returned
  recorded,          \* history: bytes added to the map, per (network, address) as passed
  quiet,             \* history: a drain has returned and nothing was sent since
  drained,           \* history: a drain was called
  ctxErr,            \* per HandshakeContext call: ctx.Err() of its context
  errch,             \* per call: the channel errch
  task,              \* per call: the goroutine HandshakeContext starts
  caller,            \* per call: where the caller of HandshakeContext is
  herr,              \* per call: the error HandshakeContext returned
  crashed,           \* a panic has reached the top of a goroutine
  hlog,              \* history: per call, what happened in it
  config,            \* the *tls.Config given to NewUTLSConn
  rawConn,           \* the net.Conn given to NewUTLSConn
  newConn,           \* what NewUTLSConn returned
  annotation,        \* what NewAnnotationArchivalNetworkEvent returned
  URL,               \* the *url.URL given to ipInfoToEndpoints
  ipinfo,            \* the map given to ipInfoToEndpoints
  endpoints          \* what ipInfoToEndpoints returned

\* The variables of the Trace and of its users.
traceVars == <<capacity, Index, ZeroTime, tags, networkEvent, bytesReceivedMap,
               bytesReceivedMu, clock, pc, loc, ret, ncalls, calls, recorded, quiet,
               drained>>
\* The variables of the handshakes.
handshakeVars == <<ctxErr, errch, task, caller, herr, crashed, hlog>>
\* The variables of the construction of a UTLSConn.
constructorVars == <<config, rawConn, newConn>>
\* The variables of the UTLSConn code.
utlsVars == <<ctxErr, errch, task, caller, herr, crashed, hlog, config, rawConn, newConn>>

vars == <<capacity, Index, ZeroTime, tags, networkEvent, bytesReceivedMap, bytesReceivedMu,
          clock, pc, loc, ret, ncalls, calls, recorded, quiet, drained,
          ctxErr, errch, task, caller, herr, crashed, hlog, config, rawConn, newConn,
          annotation, URL, ipinfo, endpoints>>
\* The variables of the calls of the functions that keep no state.
pureVars == <<annotation, URL, ipinfo, endpoints>>
traceFields == <<capacity, Index, ZeroTime, tags>>
\* The history a step that is not about draining leaves alone.
drainHistory == <<drained>>

Unlocked == "unlocked"

\* A mutex that lets a goroutine in while another one holds it.
MutexNeverExcludes(mu) == TRUE

\* Whether sync.Mutex.Lock can return: nobody holds the mutex.
MutexCanLock(mu) == mu = Unlocked

\* The map object CloneBytesReceivedMap would return if it handed out the
\* map of the Trace itself.
TraceMapObject == "tx.bytesReceivedMap"

\* out = make(map[string]int64): a map object of its own.
MakeMapObject == "out"

(***************************************************************************)
(* Pure functions.                                                         *)
(***************************************************************************)
\* NewFailure: nil for a nil error, else a pointer to the failure string.
NewFailure(err) == IF err = NoError THEN <<>> ELSE <<"failure: " \o err>>

\* Tags that are handed on as they are.
TagsAsGiven(t) == t

\* []string{} gets an array of its own, and append to it allocates the
\* array of the result.
copyAndNormalizeTags(t) ==
  LET t1 == IF Len(t.items) <= 0
            THEN [isNil |-> FALSE, items |-> <<>>, array |-> "[]string{}"]
            ELSE t
  IN  [isNil |-> FALSE, items |-> <<>> \o t1.items, array |-> "append"]

\* An event with the end offset in the place of the start offset and the
\* start offset in the place of the end offset.
NewArchivalNetworkEventSwapped(ref, index, started, operation, network, address, count, err, finished, tgs) ==
  [ ref           |-> ref,
    Address       |-> address,
    Failure       |-> NewFailure(err),
    NumBytes      |-> count,
    Operation     |-> operation,
    Proto         |-> network,
    T0            |-> finished,
    T             |-> started,
    TransactionID |-> index,
    Tags          |-> copyAndNormalizeTags(tgs) ]

\* ref is the identity of the freshly allocated event (a Go pointer).
NewArchivalNetworkEvent(ref, index, started, operation, network, address, count, err, finished, tgs) ==
  [ ref           |-> ref,
    Address       |-> address,
    Failure       |-> NewFailure(err),
    NumBytes      |-> count,
    Operation     |-> operation,
    Proto         |-> network,
    T0            |-> started,
    T             |-> finished,
    TransactionID |-> index,
    Tags          |-> copyAndNormalizeTags(tgs) ]

\* NewArchivalNetworkEvent with no I/O information; the event belongs to no
\* underlying call.
NewAnnotationArchivalNetworkEvent(index, time, operation, tgs) ==
  NewArchivalNetworkEvent(0, index, time, operation, "", "", 0, NoError, time, tgs)

addrStringIfNotNil(addr) == IF ~addr.isNil THEN addr.string ELSE ""

\* An update that keeps the network name as it is given.
NetworkAsGiven(network) == network

\* The switch of updateBytesReceivedMapNetConn.
NormalizeNetwork(network) ==
  CASE network \in {"udp", "udp4", "udp6"} -> "udp"
    [] network \in {"tcp", "tcp4", "tcp6"} -> "tcp"
    [] OTHER -> network

\* A key that leaves the address out.
MapKeyIgnoringAddress(address, network) == network

\* fmt.Sprintf("%s %s", address, network)
MapKey(address, network) == address \o " " \o network

\* m[key] of a Go map: the zero value when the key is missing.
MapGet(m, key) == IF key \in DOMAIN m THEN m[key] ELSE 0

\* m[key] += count
MapAdd(m, key, count) ==
  [k \in DOMAIN m \cup {key} |-> IF k = key THEN MapGet(m, key) + count ELSE m[k]]

\* m[key] = value
MapSet(m, key, value) ==
  [k \in DOMAIN m \cup {key} |-> IF k = key THEN value ELSE m[k]]

\* A send without the default branch: it waits for room in the channel.
SelectSendBlocks(ch) == Len(ch) < capacity

\* Whether the select on the channel send can proceed: with its default
\* branch it always can.
SelectSendReady(ch) == TRUE

\* A send that makes room by throwing the oldest event away.
TrySendEvictOldest(ch, ev) ==
  IF Len(ch) < capacity THEN Append(ch, ev) ELSE Append(Tail(ch), ev)

\* A send that puts the event at the front of the buffer.
TrySendAtFront(ch, ev) ==
  IF Len(ch) < capacity THEN <<ev>> \o ch ELSE ch

\* A send that takes one event more than the channel holds.
TrySendOneTooMany(ch, ev) ==
  IF Len(ch) <= capacity THEN Append(ch, ev) ELSE ch

\* select { case ch <- ev: default: }
TrySend(ch, ev) ==
  IF Len(ch) < capacity THEN Append(ch, ev) ELSE ch

\* A drain that collects the events newest first.
PrependOut(out, ev) == <<ev>> \o out

\* out = append(out, ev)
AppendOut(out, ev) == Append(out, ev)

\* A drain that returns after the first event it receives.
DrainStopsAfterOne(n) == n < 1

\* Whether NetworkEvents keeps looping after it has received n events.
DrainContinues(n) == TRUE

\* Returning the newest of the drained events.
LastOrNil(ev) == IF Len(ev) < 1 THEN <<>> ELSE <<ev[Len(ev)]>>

\* The value FirstNetworkEventOrNil returns for the drained events.
FirstOrNil(ev) == IF Len(ev) < 1 THEN <<>> ELSE <<ev[1]>>

\* Trace.TimeSince(t) at clock instant c.
TimeSince(c, t) == c - t

(***************************************************************************)
(* Local state of a goroutine.                                             *)
(***************************************************************************)
NoLoc ==
  [ op |-> OpNone, network |-> "", addr |-> "", started |-> 0, finished |-> 0,
    count |-> 0, err |-> NoError, raddr |-> NilAddr, key |-> "",
    unetwork |-> "", uaddress |-> "", ucount |-> 0, old |-> 0,
    out |-> <<>>, copy |-> <<>>, mapObj |-> "", ref |-> 0,
    \* history
    und |-> [count |-> 0, addr |-> NilAddr, err |-> NoError],
    dropped |-> FALSE, snap |-> <<>>, sentDuring |-> FALSE, recvDuring |-> FALSE,
    startQuiet |-> FALSE, mapAtCall |-> <<>>, mapAtLock |-> <<>>,
    recordedAt |-> <<>>, updatedDuring |-> FALSE ]

NoRet ==
  [ op |-> OpNone, count |-> 0, addr |-> NilAddr, err |-> NoError,
    out |-> <<>>, first |-> <<>>, map |-> <<>>, mapObj |-> "",
    \* history
    ref |-> 0, und |-> [count |-> 0, addr |-> NilAddr, err |-> NoError],
    dropped |-> FALSE, snap |-> <<>>, sentDuring |-> FALSE, recvDuring |-> FALSE,
    startQuiet |-> FALSE, left |-> <<>>, received |-> <<>>, recordedAt |-> <<>>,
    mapAtCall |-> <<>>, mapAtLock |-> <<>>, updatedDuring |-> FALSE ]

\* Tell the goroutines that are draining that g sent to (kind = "send") or
\* received from (kind = "recv") the channel.
Disturb(l, g, kind) ==
  [q \in Goroutines |->
     IF q # g /\ pc[q] = "drain"
     THEN IF kind = "send" THEN [l[q] EXCEPT !.sentDuring = TRUE]
                           ELSE [l[q] EXCEPT !.recvDuring = TRUE]
     ELSE l[q]]

\* The calls of HandshakeContext.
HandshakeIds == 1..MaxHandshakes

\* The goroutine of a call that has not begun: pc is where it is, value the
\* error it is about to send, panic the value it is panicking with.
NoPanic == "<no panic>"
NoTask == [pc |-> "none", value |-> NoError, panic |-> NoPanic]

\* The history of a call that has not begun.
NoLog ==
  [ ctxAtCall |-> NoError, fn |-> "", outcome |-> "none", sent |-> <<>>,
    fired |-> "no", saw |-> "none" ]

\* No HandshakeContext call has begun.
NoHandshake ==
  /\ ctxErr = [i \in HandshakeIds |-> NoError]
  /\ errch = [i \in HandshakeIds |-> [cap |-> 0, buf |-> <<>>]]
  /\ task = [i \in HandshakeIds |-> NoTask]
  /\ caller = [i \in HandshakeIds |-> "idle"]
  /\ herr = [i \in HandshakeIds |-> NoError]
  /\ crashed = FALSE
  /\ hlog = [i \in HandshakeIds |-> NoLog]

\* The fields of tls.Config the model keeps, in the order of their
\* declaration, which is the order reflect visits them in; the last one
\* is not exported.
ConfigFields ==
  << "Certificates", "GetClientCertificate", "VerifyPeerCertificate", "RootCAs",
     "NextProtos", "ServerName", "InsecureSkipVerify", "MinVersion",
     "DynamicRecordSizingDisabled", "sessionTicketKeys" >>

ConfigFieldNames == {ConfigFields[k] : k \in 1..Len(ConfigFields)}

\* A slice: nil, or empty but not nil, or with items.
NilSlice == [isNil |-> TRUE, items |-> <<>>]
Slice(s) == [isNil |-> FALSE, items |-> s]

\* The zero value of each field, and the values a caller may give it.
ZeroValue(f) ==
  CASE f \in {"Certificates", "NextProtos", "sessionTicketKeys"} -> NilSlice
    [] f \in {"GetClientCertificate", "VerifyPeerCertificate", "RootCAs"} -> "nil"
    [] f = "ServerName" -> ""
    [] f \in {"InsecureSkipVerify", "DynamicRecordSizingDisabled"} -> FALSE
    [] f = "MinVersion" -> 0

FieldValues(f) ==
  {ZeroValue(f)} \cup
  ( CASE f = "Certificates" -> {Slice(<<>>), Slice(<<"cert">>)}
      [] f = "NextProtos" -> {Slice(<<>>), Slice(<<"h2", "http/1.1">>)}
      [] f = "sessionTicketKeys" -> {Slice(<<"key">>)}
      [] f = "GetClientCertificate" -> {"func"}
      [] f = "VerifyPeerCertificate" -> {"func"}
      [] f = "RootCAs" -> {"*x509.CertPool"}
      [] f = "ServerName" -> {"dns.google"}
      [] f \in {"InsecureSkipVerify", "DynamicRecordSizingDisabled"} -> {TRUE}
      [] f = "MinVersion" -> {772} )

\* The configurations NewUTLSConn is given.
Configs ==
  [ Certificates                : FieldValues("Certificates"),
    GetClientCertificate        : FieldValues("GetClientCertificate"),
    VerifyPeerCertificate       : FieldValues("VerifyPeerCertificate"),
    RootCAs                     : FieldValues("RootCAs"),
    NextProtos                  : FieldValues("NextProtos"),
    ServerName                  : FieldValues("ServerName"),
    InsecureSkipVerify          : FieldValues("InsecureSkipVerify"),
    MinVersion                  : FieldValues("MinVersion"),
    DynamicRecordSizingDisabled : FieldValues("DynamicRecordSizingDisabled"),
    sessionTicketKeys           : FieldValues("sessionTicketKeys") ]

ZeroConfig == [f \in ConfigFieldNames |-> ZeroValue(f)]

\* newConn before NewUTLSConn is called.
NotCalled == [called |-> FALSE]

\* NewUTLSConn has not been called.
NoConstruction ==
  /\ config = ZeroConfig
  /\ rawConn = "nil"
  /\ newConn = NotCalled

\* The URL of a call that was not made.
NoURL == [Scheme |-> "", Port |-> <<>>]

\* Neither NewAnnotationArchivalNetworkEvent nor ipInfoToEndpoints has been
\* called.
NoPureCall ==
  /\ annotation = <<>>
  /\ URL = NoURL
  /\ ipinfo = <<>>
  /\ endpoints = NotCalled

\* The state after NewTrace, for a Trace with the given index and tags.
TraceInit(size, indexes, tagsets) ==
  /\ capacity = size
  /\ Index \in indexes
  /\ ZeroTime = 0
  /\ tags \in tagsets
  /\ networkEvent = <<>>
  /\ bytesReceivedMap = <<>>
  /\ bytesReceivedMu = Unlocked
  /\ clock = 0
  /\ pc = [g \in Goroutines |-> "idle"]
  /\ loc = [g \in Goroutines |-> NoLoc]
  /\ ret = [g \in Goroutines |-> NoRet]
  /\ ncalls = 0
  /\ calls = <<>>
  /\ recorded = <<>>
  /\ quiet = FALSE
  /\ drained = FALSE

\* The same, with no UTLSConn made and no handshake begun.
InitWith(size, indexes, tagsets) ==
  /\ TraceInit(size, indexes, tagsets)
  /\ NoHandshake
  /\ NoConstruction
  /\ NoPureCall

Init == InitWith(NetworkEventBufferSize, {1}, {Tags(<<"antani">>)})

SeqInit == InitWith(NetworkEventBufferSize, {1}, {NilTags, Tags(<<"antani">>)})

FairInit == InitWith(FairBufferSize, {1}, {NilTags})

\* A call by g begins.
Begin(g, I) ==
  /\ pc[g] = "idle"
  /\ ncalls < I.budget
  /\ ncalls' = ncalls + 1
  /\ ret' = [ret EXCEPT ![g] = NoRet]

\* The underlying call of g returns: it becomes the next entry of calls.
Underlying(g, op) ==
  /\ pc[g] = "io"
  /\ loc[g].op = op
  /\ calls' = Append(calls, [op |-> op, by |-> g])

\* The values the call of g returns, with its history.
Return(g, l, r) ==
  /\ pc' = [pc EXCEPT ![g] = "idle"]
  /\ loc' = [l EXCEPT ![g] = NoLoc]
  /\ ret' = [ret EXCEPT ![g] =
       [r EXCEPT !.op = l[g].op, !.ref = l[g].ref, !.und = l[g].und,
                 !.dropped = l[g].dropped, !.snap = l[g].snap,
                 !.sentDuring = l[g].sentDuring, !.recvDuring = l[g].recvDuring,
                 !.startQuiet = l[g].startQuiet,
                 !.received = IF l[g].op \in DrainOps THEN l[g].out ELSE <<>>,
                 !.recordedAt = l[g].recordedAt, !.mapAtCall = l[g].mapAtCall,
                 !.mapAtLock = l[g].mapAtLock,
                 !.updatedDuring = l[g].updatedDuring]]


(***************************************************************************)
(* connTrace.Read                                                          *)
(***************************************************************************)
\* The event Read emits.
ReadEvent(l) ==
  NewArchivalNetworkEvent(l.ref, Index, l.started, ReadOperation, l.network,
                          l.addr, l.count, l.err, l.finished, tags)

\* Read is called: it takes the remote address and the start time.
Read_call(g, I) ==
  /\ Begin(g, I)
  /\ \E ra \in I.remotes :
       /\ loc' = [loc EXCEPT ![g] =
            [NoLoc EXCEPT !.op = OpRead, !.network = ra.network,
                          !.addr = ra.string, !.started = TimeSince(clock, ZeroTime)]]
  /\ pc' = [pc EXCEPT ![g] = "io"]
  /\ UNCHANGED <<utlsVars, pureVars, traceFields, drainHistory, networkEvent, bytesReceivedMap, bytesReceivedMu,
                 clock, calls, recorded, quiet>>

\* c.Conn.Read returns, and Read takes the finish time.
Read_underlying(g, I) ==
  /\ Underlying(g, OpRead)
  /\ \E r \in I.results, t \in clock..I.lastInstant :
       /\ clock' = t
       /\ loc' = [loc EXCEPT ![g] =
            [@ EXCEPT !.count = r.count, !.err = r.err, !.ref = Len(calls) + 1,
                      !.finished = TimeSince(t, ZeroTime),
                      !.und = [count |-> r.count, addr |-> NilAddr, err |-> r.err]]]
  /\ pc' = [pc EXCEPT ![g] = "emit"]
  /\ UNCHANGED <<utlsVars, pureVars, traceFields, drainHistory, networkEvent, bytesReceivedMap, bytesReceivedMu,
                 ret, ncalls, recorded, quiet>>

\* A Read that leaves the map alone when the channel did not take its event.
Read_emitUpdatesWhenAccepted(g) ==
  /\ pc[g] = "emit"
  /\ loc[g].op = OpRead
  /\ networkEvent' = TrySend(networkEvent, ReadEvent(loc[g]))
  /\ LET sent == networkEvent' # networkEvent
         l1 == IF sent THEN Disturb(loc, g, "send") ELSE loc
         l2 == [l1 EXCEPT ![g] = [@ EXCEPT !.dropped = ~sent]]
     IN  /\ quiet' = (quiet /\ ~sent)
         /\ IF sent
            THEN /\ loc' = [l2 EXCEPT ![g] =
                      [@ EXCEPT !.unetwork = loc[g].network, !.uaddress = loc[g].addr,
                                !.ucount = loc[g].count,
                                !.key = MapKey(loc[g].addr, NormalizeNetwork(loc[g].network))]]
                 /\ pc' = [pc EXCEPT ![g] = "lock"]
                 /\ UNCHANGED ret
            ELSE Return(g, l2, [NoRet EXCEPT !.count = loc[g].count, !.err = loc[g].err])
  /\ UNCHANGED <<utlsVars, pureVars, traceFields, drainHistory, bytesReceivedMap, bytesReceivedMu,
                 clock, ncalls, calls, recorded>>

\* A Read that sends its event and adds its bytes to the map in one step
\* that no drain and no clone can come between.
Read_emitAndUpdateAtOnce(g) ==
  /\ pc[g] = "emit"
  /\ loc[g].op = OpRead
  /\ MutexCanLock(bytesReceivedMu)
  /\ networkEvent' = TrySend(networkEvent, ReadEvent(loc[g]))
  /\ LET sent == networkEvent' # networkEvent
         l1 == IF sent THEN Disturb(loc, g, "send") ELSE loc
         l2 == [l1 EXCEPT ![g] = [@ EXCEPT !.dropped = ~sent]]
         key == MapKey(loc[g].addr, NormalizeNetwork(loc[g].network))
     IN  /\ quiet' = (quiet /\ ~sent)
         /\ bytesReceivedMap' = MapAdd(bytesReceivedMap, key, loc[g].count)
         /\ recorded' = MapAdd(recorded, <<loc[g].network, loc[g].addr>>, loc[g].count)
         /\ Return(g, l2, [NoRet EXCEPT !.count = loc[g].count, !.err = loc[g].err])
  /\ UNCHANGED <<utlsVars, pureVars, traceFields, drainHistory, bytesReceivedMu, clock, ncalls, calls>>

\* The select that sends the event, then the call of
\* updateBytesReceivedMapNetConn up to the point where it takes the mutex.
Read_emit(g) ==
  /\ pc[g] = "emit"
  /\ loc[g].op = OpRead
  /\ SelectSendReady(networkEvent)
  /\ networkEvent' = TrySend(networkEvent, ReadEvent(loc[g]))
  /\ LET sent == networkEvent' # networkEvent
         l1 == IF sent THEN Disturb(loc, g, "send") ELSE loc
     IN  /\ quiet' = (quiet /\ ~sent)
         /\ loc' = [l1 EXCEPT ![g] =
              [@ EXCEPT !.dropped = ~sent,
                        !.unetwork = loc[g].network, !.uaddress = loc[g].addr,
                        !.ucount = loc[g].count,
                        !.key = MapKey(loc[g].addr, NormalizeNetwork(loc[g].network))]]
  /\ pc' = [pc EXCEPT ![g] = "lock"]
  /\ UNCHANGED <<utlsVars, pureVars, traceFields, drainHistory, bytesReceivedMap, bytesReceivedMu, clock, ret,
                 ncalls, calls, recorded>>

(***************************************************************************)
(* Trace.updateBytesReceivedMapNetConn                                     *)
(***************************************************************************)
\* A caller that reports no bytes when the underlying call failed.
AfterUpdateNoBytesOnError(l) ==
  CASE l.op = OpRead ->
         [NoRet EXCEPT !.count = IF l.err = NoError THEN l.count ELSE 0,
                       !.err = l.err]
    [] l.op = OpReadFrom ->
         [NoRet EXCEPT !.count = IF l.err = NoError THEN l.count ELSE 0,
                       !.addr = l.raddr, !.err = l.err]
    [] OTHER -> NoRet

\* What the caller of updateBytesReceivedMapNetConn returns afterwards.
AfterUpdate(l) ==
  CASE l.op = OpRead -> [NoRet EXCEPT !.count = l.count, !.err = l.err]
    [] l.op = OpReadFrom ->
         [NoRet EXCEPT !.count = l.count, !.addr = l.raddr, !.err = l.err]
    [] OTHER -> NoRet

\* A direct call, as the package's own code and tests make it.
updateBytesReceivedMapNetConn_call(g, I) ==
  /\ Begin(g, I)
  /\ \E network \in I.networks, address \in I.addresses, count \in I.amounts :
       loc' = [loc EXCEPT ![g] =
         [NoLoc EXCEPT !.op = OpUpdate, !.unetwork = network,
                       !.uaddress = address, !.ucount = count,
                       !.key = MapKey(address, NormalizeNetwork(network))]]
  /\ pc' = [pc EXCEPT ![g] = "lock"]
  /\ UNCHANGED <<utlsVars, pureVars, traceFields, drainHistory, networkEvent, bytesReceivedMap, bytesReceivedMu,
                 clock, calls, recorded, quiet>>

\* tx.bytesReceivedMu.Lock()
updateBytesReceivedMapNetConn_lock(g) ==
  /\ pc[g] = "lock"
  /\ MutexCanLock(bytesReceivedMu)
  /\ bytesReceivedMu' = g
  /\ pc' = [pc EXCEPT ![g] = "load"]
  /\ UNCHANGED <<utlsVars, pureVars, traceFields, drainHistory, networkEvent, bytesReceivedMap, clock, loc, ret,
                 ncalls, calls, recorded, quiet>>

\* The read of tx.bytesReceivedMap[key] that += makes.
updateBytesReceivedMapNetConn_load(g) ==
  /\ pc[g] = "load"
  /\ loc' = [loc EXCEPT ![g] = [@ EXCEPT !.old = MapGet(bytesReceivedMap, loc[g].key)]]
  /\ pc' = [pc EXCEPT ![g] = "add"]
  /\ UNCHANGED <<utlsVars, pureVars, traceFields, drainHistory, networkEvent, bytesReceivedMap, bytesReceivedMu,
                 clock, ret, ncalls, calls, recorded, quiet>>

\* Tell the goroutines that wait for the mutex to clone the map that g
\* has updated it.
Overtake(l, g) ==
  [q \in Goroutines |->
     IF q # g /\ pc[q] = "clone_lock"
     THEN [l[q] EXCEPT !.updatedDuring = TRUE]
     ELSE l[q]]

\* The write of tx.bytesReceivedMap[key] that += makes; Unlock(); and the
\* caller returns.
updateBytesReceivedMapNetConn_add(g) ==
  /\ pc[g] = "add"
  /\ bytesReceivedMap' = MapSet(bytesReceivedMap, loc[g].key, loc[g].old + loc[g].ucount)
  /\ bytesReceivedMu' = Unlocked
  /\ recorded' = MapAdd(recorded, <<loc[g].unetwork, loc[g].uaddress>>, loc[g].ucount)
  /\ Return(g, Overtake(loc, g), AfterUpdate(loc[g]))
  /\ UNCHANGED <<utlsVars, pureVars, traceFields, drainHistory, networkEvent, clock, ncalls, calls, quiet>>

(***************************************************************************)
(* Trace.CloneBytesReceivedMap                                             *)
(***************************************************************************)
\* out[key] = value
CopyEntry(out, key, value) ==
  [k \in DOMAIN out \cup {key} |-> IF k = key THEN value ELSE out[k]]

\* out = make(map[string]int64)
CloneBytesReceivedMap_call(g, I) ==
  /\ Begin(g, I)
  /\ loc' = [loc EXCEPT ![g] =
       [NoLoc EXCEPT !.op = OpClone, !.mapObj = MakeMapObject,
                     !.mapAtCall = bytesReceivedMap]]
  /\ pc' = [pc EXCEPT ![g] = "clone_lock"]
  /\ UNCHANGED <<utlsVars, pureVars, traceFields, drainHistory, networkEvent, bytesReceivedMap, bytesReceivedMu,
                 clock, calls, recorded, quiet>>

\* tx.bytesReceivedMu.Lock()
CloneBytesReceivedMap_lock(g) ==
  /\ pc[g] = "clone_lock"
  /\ MutexCanLock(bytesReceivedMu)
  /\ bytesReceivedMu' = g
  /\ loc' = [loc EXCEPT ![g] =
       [@ EXCEPT !.mapAtLock = bytesReceivedMap, !.recordedAt = recorded]]
  /\ pc' = [pc EXCEPT ![g] = "clone_copy"]
  /\ UNCHANGED <<utlsVars, pureVars, traceFields, drainHistory, networkEvent, bytesReceivedMap, clock, ret,
                 ncalls, calls, recorded, quiet>>

\* One round of the loop over the map, which visits the keys in any order.
CloneBytesReceivedMap_copy(g) ==
  /\ pc[g] = "clone_copy"
  /\ \E key \in DOMAIN bytesReceivedMap \ DOMAIN loc[g].copy :
       loc' = [loc EXCEPT ![g] =
         [@ EXCEPT !.copy = CopyEntry(loc[g].copy, key, bytesReceivedMap[key])]]
  /\ UNCHANGED <<utlsVars, pureVars, traceFields, drainHistory, networkEvent, bytesReceivedMap, bytesReceivedMu,
                 clock, pc, ret, ncalls, calls, recorded, quiet>>

\* The loop is over: Unlock() and return.
CloneBytesReceivedMap_return(g) ==
  /\ pc[g] = "clone_copy"
  /\ DOMAIN bytesReceivedMap \subseteq DOMAIN loc[g].copy
  /\ bytesReceivedMu' = Unlocked
  /\ Return(g, loc, [NoRet EXCEPT !.map = loc[g].copy, !.mapObj = loc[g].mapObj])
  /\ UNCHANGED <<utlsVars, pureVars, traceFields, drainHistory, networkEvent, bytesReceivedMap, clock, ncalls,
                 calls, recorded, quiet>>

(***************************************************************************)
(* connTrace.Write                                                         *)
(***************************************************************************)
\* A Write that tags its event as a read.
WriteEventTaggedRead(l) ==
  NewArchivalNetworkEvent(l.ref, Index, l.started, ReadOperation, l.network,
                          l.addr, l.count, l.err, l.finished, tags)

WriteEvent(l) ==
  NewArchivalNetworkEvent(l.ref, Index, l.started, WriteOperation, l.network,
                          l.addr, l.count, l.err, l.finished, tags)

Write_call(g, I) ==
  /\ Begin(g, I)
  /\ \E ra \in I.remotes :
       /\ loc' = [loc EXCEPT ![g] =
            [NoLoc EXCEPT !.op = OpWrite, !.network = ra.network,
                          !.addr = ra.string, !.started = TimeSince(clock, ZeroTime)]]
  /\ pc' = [pc EXCEPT ![g] = "io"]
  /\ UNCHANGED <<utlsVars, pureVars, traceFields, drainHistory, networkEvent, bytesReceivedMap, bytesReceivedMu,
                 clock, calls, recorded, quiet>>

Write_underlying(g, I) ==
  /\ Underlying(g, OpWrite)
  /\ \E r \in I.results, t \in clock..I.lastInstant :
       /\ clock' = t
       /\ loc' = [loc EXCEPT ![g] =
            [@ EXCEPT !.count = r.count, !.err = r.err, !.ref = Len(calls) + 1,
                      !.finished = TimeSince(t, ZeroTime),
                      !.und = [count |-> r.count, addr |-> NilAddr, err |-> r.err]]]
  /\ pc' = [pc EXCEPT ![g] = "emit"]
  /\ UNCHANGED <<utlsVars, pureVars, traceFields, drainHistory, networkEvent, bytesReceivedMap, bytesReceivedMu,
                 ret, ncalls, recorded, quiet>>

\* What Write returns.
WriteResult(l) == [NoRet EXCEPT !.count = l.count, !.err = l.err]

\* A Write that goes on to update the bytes received map, as Read does.
Write_emitThenUpdate(g) ==
  /\ pc[g] = "emit"
  /\ loc[g].op = OpWrite
  /\ networkEvent' = TrySend(networkEvent, WriteEvent(loc[g]))
  /\ LET sent == networkEvent' # networkEvent
         l1 == IF sent THEN Disturb(loc, g, "send") ELSE loc
     IN  /\ quiet' = (quiet /\ ~sent)
         /\ loc' = [l1 EXCEPT ![g] =
              [@ EXCEPT !.dropped = ~sent,
                        !.unetwork = loc[g].network, !.uaddress = loc[g].addr,
                        !.ucount = loc[g].count,
                        !.key = MapKey(loc[g].addr, NormalizeNetwork(loc[g].network))]]
  /\ pc' = [pc EXCEPT ![g] = "lock"]
  /\ UNCHANGED <<utlsVars, pureVars, traceFields, drainHistory, bytesReceivedMap, bytesReceivedMu, clock, ret,
                 ncalls, calls, recorded>>

\* The select that sends the event, and the return.
Write_emit(g) ==
  /\ pc[g] = "emit"
  /\ loc[g].op = OpWrite
  /\ SelectSendReady(networkEvent)
  /\ networkEvent' = TrySend(networkEvent, WriteEvent(loc[g]))
  /\ LET sent == networkEvent' # networkEvent
         l1 == IF sent THEN Disturb(loc, g, "send") ELSE loc
         l2 == [l1 EXCEPT ![g] = [@ EXCEPT !.dropped = ~sent]]
     IN  /\ quiet' = (quiet /\ ~sent)
         /\ Return(g, l2, WriteResult(loc[g]))
  /\ UNCHANGED <<utlsVars, pureVars, traceFields, drainHistory, bytesReceivedMap, bytesReceivedMu, clock,
                 ncalls, calls, recorded>>

(***************************************************************************)
(* udpLikeConnTrace.ReadFrom                                               *)
(***************************************************************************)
ReadFromEvent(l) ==
  NewArchivalNetworkEvent(l.ref, Index, l.started, ReadFromOperation, "udp",
                          l.addr, l.count, l.err, l.finished, tags)

ReadFrom_call(g, I) ==
  /\ Begin(g, I)
  /\ loc' = [loc EXCEPT ![g] =
       [NoLoc EXCEPT !.op = OpReadFrom, !.started = TimeSince(clock, ZeroTime)]]
  /\ pc' = [pc EXCEPT ![g] = "io"]
  /\ UNCHANGED <<utlsVars, pureVars, traceFields, drainHistory, networkEvent, bytesReceivedMap, bytesReceivedMu,
                 clock, calls, recorded, quiet>>

\* c.UDPLikeConn.ReadFrom returns; finished and address are taken.
ReadFrom_underlying(g, I) ==
  /\ Underlying(g, OpReadFrom)
  /\ \E r \in I.datagrams, t \in clock..I.lastInstant :
       /\ clock' = t
       /\ loc' = [loc EXCEPT ![g] =
            [@ EXCEPT !.count = r.count, !.raddr = r.addr, !.err = r.err,
                      !.ref = Len(calls) + 1,
                      !.finished = TimeSince(t, ZeroTime),
                      !.addr = addrStringIfNotNil(r.addr),
                      !.und = [count |-> r.count, addr |-> r.addr, err |-> r.err]]]
  /\ pc' = [pc EXCEPT ![g] = "emit"]
  /\ UNCHANGED <<utlsVars, pureVars, traceFields, drainHistory, networkEvent, bytesReceivedMap, bytesReceivedMu,
                 ret, ncalls, recorded, quiet>>

\* An update that does not look at the address.
maybeUpdateAlways(addr) == TRUE

\* maybeUpdateBytesReceivedMapUDPLikeConn: whether it updates the map.
maybeUpdate(addr) == ~addr.isNil

\* The select that sends the event; then either the map update begins or,
\* for a nil address, ReadFrom returns.
ReadFrom_emit(g) ==
  /\ pc[g] = "emit"
  /\ loc[g].op = OpReadFrom
  /\ SelectSendReady(networkEvent)
  /\ networkEvent' = TrySend(networkEvent, ReadFromEvent(loc[g]))
  /\ LET sent == networkEvent' # networkEvent
         l1 == IF sent THEN Disturb(loc, g, "send") ELSE loc
         l2 == [l1 EXCEPT ![g] = [@ EXCEPT !.dropped = ~sent]]
     IN  /\ quiet' = (quiet /\ ~sent)
         /\ IF maybeUpdate(loc[g].raddr)
            THEN /\ loc' = [l2 EXCEPT ![g] =
                      [@ EXCEPT !.unetwork = loc[g].raddr.network,
                                !.uaddress = loc[g].raddr.string,
                                !.ucount = loc[g].count,
                                !.key = MapKey(loc[g].raddr.string,
                                               NormalizeNetwork(loc[g].raddr.network))]]
                 /\ pc' = [pc EXCEPT ![g] = "lock"]
                 /\ UNCHANGED ret
            ELSE Return(g, l2, AfterUpdate(loc[g]))
  /\ UNCHANGED <<utlsVars, pureVars, traceFields, drainHistory, bytesReceivedMap, bytesReceivedMu, clock,
                 ncalls, calls, recorded>>

(***************************************************************************)
(* udpLikeConnTrace.WriteTo                                                *)
(***************************************************************************)
WriteToEvent(l) ==
  NewArchivalNetworkEvent(l.ref, Index, l.started, WriteToOperation, "udp",
                          l.addr, l.count, l.err, l.finished, tags)

WriteTo_call(g, I) ==
  /\ Begin(g, I)
  /\ \E addr \in I.peers :
       /\ loc' = [loc EXCEPT ![g] =
            [NoLoc EXCEPT !.op = OpWriteTo, !.started = TimeSince(clock, ZeroTime),
                          !.addr = addr.string]]
  /\ pc' = [pc EXCEPT ![g] = "io"]
  /\ UNCHANGED <<utlsVars, pureVars, traceFields, drainHistory, networkEvent, bytesReceivedMap, bytesReceivedMu,
                 clock, calls, recorded, quiet>>

WriteTo_underlying(g, I) ==
  /\ Underlying(g, OpWriteTo)
  /\ \E r \in I.results, t \in clock..I.lastInstant :
       /\ clock' = t
       /\ loc' = [loc EXCEPT ![g] =
            [@ EXCEPT !.count = r.count, !.err = r.err, !.ref = Len(calls) + 1,
                      !.finished = TimeSince(t, ZeroTime),
                      !.und = [count |-> r.count, addr |-> NilAddr, err |-> r.err]]]
  /\ pc' = [pc EXCEPT ![g] = "emit"]
  /\ UNCHANGED <<utlsVars, pureVars, traceFields, drainHistory, networkEvent, bytesReceivedMap, bytesReceivedMu,
                 ret, ncalls, recorded, quiet>>

WriteToResult(l) == [NoRet EXCEPT !.count = l.count, !.err = l.err]

WriteTo_emit(g) ==
  /\ pc[g] = "emit"
  /\ loc[g].op = OpWriteTo
  /\ SelectSendReady(networkEvent)
  /\ networkEvent' = TrySend(networkEvent, WriteToEvent(loc[g]))
  /\ LET sent == networkEvent' # networkEvent
         l1 == IF sent THEN Disturb(loc, g, "send") ELSE loc
         l2 == [l1 EXCEPT ![g] = [@ EXCEPT !.dropped = ~sent]]
     IN  /\ quiet' = (quiet /\ ~sent)
         /\ Return(g, l2, WriteToResult(loc[g]))
  /\ UNCHANGED <<utlsVars, pureVars, traceFields, drainHistory, bytesReceivedMap, bytesReceivedMu, clock,
                 ncalls, calls, recorded>>

(***************************************************************************)
(* NewAnnotationArchivalNetworkEvent                                       *)
(***************************************************************************)
\* A caller makes an annotation for the Trace, at some offset.
NewAnnotationArchivalNetworkEvent_call(I) ==
  /\ \E operation \in AnnotationOperations, time \in 0..I.lastInstant :
       annotation' = <<NewAnnotationArchivalNetworkEvent(Index, time, operation, tags)>>
  /\ UNCHANGED <<traceVars, utlsVars, URL, ipinfo, endpoints>>

(***************************************************************************)
(* Trace.NetworkEvents and Trace.FirstNetworkEventOrNil                    *)
(***************************************************************************)
NetworkEvents_call(g, I) ==
  /\ Begin(g, I)
  /\ loc' = [loc EXCEPT ![g] =
       [NoLoc EXCEPT !.op = OpNetworkEvents, !.snap = networkEvent,
                     !.startQuiet = quiet]]
  /\ pc' = [pc EXCEPT ![g] = "drain"]
  /\ drained' = TRUE
  /\ UNCHANGED <<utlsVars, pureVars, traceFields, networkEvent, bytesReceivedMap, bytesReceivedMu,
                 clock, calls, recorded, quiet>>

\* FirstNetworkEventOrNil calls NetworkEvents.
FirstNetworkEventOrNil_call(g, I) ==
  /\ Begin(g, I)
  /\ loc' = [loc EXCEPT ![g] =
       [NoLoc EXCEPT !.op = OpFirstNetworkEventOrNil, !.snap = networkEvent,
                     !.startQuiet = quiet]]
  /\ pc' = [pc EXCEPT ![g] = "drain"]
  /\ drained' = TRUE
  /\ UNCHANGED <<utlsVars, pureVars, traceFields, networkEvent, bytesReceivedMap, bytesReceivedMu,
                 clock, calls, recorded, quiet>>

\* A receive that leaves the event in the channel.
NetworkEvents_receiveAndKeep(g) ==
  /\ pc[g] = "drain"
  /\ networkEvent # <<>>
  /\ Len(loc[g].out) < capacity
  /\ loc' = [Disturb(loc, g, "recv") EXCEPT ![g] =
       [@ EXCEPT !.out = AppendOut(loc[g].out, Head(networkEvent))]]
  /\ UNCHANGED <<utlsVars, pureVars, traceFields, drainHistory, networkEvent, bytesReceivedMap,
                 bytesReceivedMu, clock, pc, ret, ncalls, calls, recorded, quiet>>

\* case ev := <-tx.networkEvent: out = append(out, ev)
NetworkEvents_receive(g) ==
  /\ pc[g] = "drain"
  /\ networkEvent # <<>>
  /\ DrainContinues(Len(loc[g].out))
  /\ networkEvent' = Tail(networkEvent)
  /\ loc' = [Disturb(loc, g, "recv") EXCEPT ![g] =
       [@ EXCEPT !.out = AppendOut(loc[g].out, Head(networkEvent))]]
  /\ UNCHANGED <<utlsVars, pureVars, traceFields, drainHistory, bytesReceivedMap, bytesReceivedMu, clock, pc, ret,
                 ncalls, calls, recorded, quiet>>

\* What the drain returns to the caller of g's call.
DrainResult(l) ==
  IF l.op = OpFirstNetworkEventOrNil
  THEN [NoRet EXCEPT !.first = FirstOrNil(l.out)]
  ELSE [NoRet EXCEPT !.out = l.out]

\* default: return
NetworkEvents_default(g) ==
  /\ pc[g] = "drain"
  /\ networkEvent = <<>> \/ ~DrainContinues(Len(loc[g].out))
  /\ quiet' = TRUE
  /\ Return(g, loc, [DrainResult(loc[g]) EXCEPT !.left = networkEvent])
  /\ UNCHANGED <<utlsVars, pureVars, traceFields, drainHistory, networkEvent, bytesReceivedMap, bytesReceivedMu,
                 clock, ncalls, calls, recorded>>

(***************************************************************************)
(* UTLSConn.HandshakeContext                                               *)
(***************************************************************************)
ErrUTLSHandshakePanic == "utls: handshake panic"

\* The connections HandshakeContext is called on: with the handshake of the
\* UConn, or with a testable handshake in its place.
NilFunc == "nil"
UTLSConns ==
  { [testableHandshake |-> NilFunc], [testableHandshake |-> "testableHandshake"] }

handshakefn(c) ==
  IF c.testableHandshake # NilFunc THEN c.testableHandshake ELSE "UConn.Handshake"

\* What the context may be at the call, and the errors it may end with.
ContextErrors == {"context canceled", "context deadline exceeded"}
ContextsAtCall == {NoError, "context canceled"}

\* What a handshake function may do: return nil or an error, or panic.
HandshakeReturns == {NoError, "tls: handshake failure"}
HandshakePanics == {"runtime error: index out of range"}

\* A channel without a buffer.
MakeUnbufferedErrch == [cap |-> 0, buf |-> <<>>]

\* errch := make(chan error, 1)
MakeErrch == [cap |-> 1, buf |-> <<>>]

\* A recover that is not called by the deferred function: it returns nil
\* and the goroutine keeps panicking.
recoverOutsideDefer(p) == [value |-> NoPanic, panicking |-> p # NoPanic]

\* recover(), called by the deferred function while the goroutine panics
\* with p (NoPanic: it does not panic): it returns p and ends the panic.
recover(p) == [value |-> p, panicking |-> FALSE]

\* A deferred function that sends nothing.
DeferredSendsNothing(r) == <<>>

\* A deferred function that sends what recover() returned as it is.
DeferredSendsRecovered(r) == IF r # NoPanic THEN <<r>> ELSE <<>>

\* What the deferred function sends, given what recover() returned.
DeferredSend(r) == IF r # NoPanic THEN <<ErrUTLSHandshakePanic>> ELSE <<>>

\* A select that has no case for the context.
SelectReadyWithoutDone(ch, e) == IF ch.buf # <<>> THEN {"errch"} ELSE {}

\* The cases of the select that can proceed: the receive when the channel
\* holds a value, the Done case when the context has ended.
SelectReady(ch, e) ==
  (IF ch.buf # <<>> THEN {"errch"} ELSE {}) \cup (IF e # NoError THEN {"done"} ELSE {})

\* An error of its own in the place of the context's.
DoneErrorGeneric(e) == "generic_timeout_error"

\* err = ctx.Err()
DoneError(e) == e

\* What the select finds ready when it is evaluated.
Saw(ready) ==
  CASE ready = {"errch", "done"} -> "both"
    [] ready = {"errch"} -> "result"
    [] ready = {"done"} -> "done"
    [] OTHER -> "nothing"

\* HandshakeContext is called with a context: it makes the channel and
\* starts the goroutine.
HandshakeContext_call(i) ==
  /\ caller[i] = "idle"
  /\ \A j \in HandshakeIds : j < i => caller[j] = "returned"
  /\ \E c \in UTLSConns, e \in ContextsAtCall :
       /\ ctxErr' = [ctxErr EXCEPT ![i] = e]
       /\ hlog' = [hlog EXCEPT ![i] =
            [NoLog EXCEPT !.ctxAtCall = e, !.fn = handshakefn(c)]]
  /\ errch' = [errch EXCEPT ![i] = MakeErrch]
  /\ task' = [task EXCEPT ![i] = [NoTask EXCEPT !.pc = "handshake"]]
  /\ caller' = [caller EXCEPT ![i] = "select"]
  /\ UNCHANGED <<traceVars, constructorVars, pureVars, herr, crashed>>

\* The context of a call that has begun is cancelled or reaches its
\* deadline: Done is closed, and a caller waiting in the select takes the
\* Done case.
Context_done(i) ==
  /\ caller[i] # "idle"
  /\ ctxErr[i] = NoError
  /\ \E e \in ContextErrors :
       /\ ctxErr' = [ctxErr EXCEPT ![i] = e]
       /\ IF caller[i] = "waiting" /\ "done" \in SelectReady(errch[i], e)
          THEN /\ caller' = [caller EXCEPT ![i] = "returned"]
               /\ herr' = [herr EXCEPT ![i] = DoneError(e)]
               /\ hlog' = [hlog EXCEPT ![i] =
                    [@ EXCEPT !.saw = "done",
                              !.fired = IF hlog[i].sent = <<>> THEN "before" ELSE "after"]]
          ELSE /\ hlog' = [hlog EXCEPT ![i] =
                    [@ EXCEPT !.fired = IF caller[i] = "returned" THEN "late"
                                        ELSE IF hlog[i].sent = <<>> THEN "before"
                                        ELSE "after"]]
               /\ UNCHANGED <<caller, herr>>
  /\ UNCHANGED <<traceVars, constructorVars, pureVars, errch, task, crashed>>

\* The select is evaluated and finds the channel readable: case err = <-errch.
HandshakeContext_receive(i) ==
  /\ caller[i] = "select"
  /\ "errch" \in SelectReady(errch[i], ctxErr[i])
  /\ herr' = [herr EXCEPT ![i] = Head(errch[i].buf)]
  /\ errch' = [errch EXCEPT ![i] = [@ EXCEPT !.buf = Tail(@)]]
  /\ caller' = [caller EXCEPT ![i] = "returned"]
  /\ hlog' = [hlog EXCEPT ![i] =
       [@ EXCEPT !.saw = Saw(SelectReady(errch[i], ctxErr[i]))]]
  /\ UNCHANGED <<traceVars, constructorVars, pureVars, ctxErr, task, crashed>>

\* The select is evaluated and finds Done closed: case <-ctx.Done().
HandshakeContext_done(i) ==
  /\ caller[i] = "select"
  /\ "done" \in SelectReady(errch[i], ctxErr[i])
  /\ herr' = [herr EXCEPT ![i] = DoneError(ctxErr[i])]
  /\ caller' = [caller EXCEPT ![i] = "returned"]
  /\ hlog' = [hlog EXCEPT ![i] =
       [@ EXCEPT !.saw = Saw(SelectReady(errch[i], ctxErr[i]))]]
  /\ UNCHANGED <<traceVars, constructorVars, pureVars, ctxErr, errch, task, crashed>>

\* The select is evaluated and finds no case ready: the caller waits.
HandshakeContext_wait(i) ==
  /\ caller[i] = "select"
  /\ SelectReady(errch[i], ctxErr[i]) = {}
  /\ caller' = [caller EXCEPT ![i] = "waiting"]
  /\ UNCHANGED <<traceVars, constructorVars, pureVars, ctxErr, errch, task, herr, crashed, hlog>>

\* c.handshakefn()() returns.
Handshake_return(i) ==
  /\ task[i].pc = "handshake"
  /\ \E e \in HandshakeReturns :
       /\ task' = [task EXCEPT ![i] = [@ EXCEPT !.pc = "send", !.value = e]]
       /\ hlog' = [hlog EXCEPT ![i] = [@ EXCEPT !.outcome = e]]
  /\ UNCHANGED <<traceVars, constructorVars, pureVars, ctxErr, errch, caller, herr, crashed>>

\* c.handshakefn()() panics: the deferred function is to run.
Handshake_panic(i) ==
  /\ task[i].pc = "handshake"
  /\ \E p \in HandshakePanics :
       task' = [task EXCEPT ![i] = [@ EXCEPT !.pc = "deferred", !.panic = p]]
  /\ hlog' = [hlog EXCEPT ![i] = [@ EXCEPT !.outcome = "panic"]]
  /\ UNCHANGED <<traceVars, constructorVars, pureVars, ctxErr, errch, caller, herr, crashed>>

\* errch <- value: into the buffer, or to the caller waiting in the select,
\* which then takes the receive case.
Task_send(i) ==
  /\ task[i].pc \in {"send", "send_panic"}
  /\ IF caller[i] = "waiting"
     THEN /\ caller' = [caller EXCEPT ![i] = "returned"]
          /\ herr' = [herr EXCEPT ![i] = task[i].value]
          /\ hlog' = [hlog EXCEPT ![i] =
               [@ EXCEPT !.sent = Append(@, task[i].value), !.saw = "result"]]
          /\ UNCHANGED errch
     ELSE /\ Len(errch[i].buf) < errch[i].cap
          /\ errch' = [errch EXCEPT ![i] = [@ EXCEPT !.buf = Append(@, task[i].value)]]
          /\ hlog' = [hlog EXCEPT ![i] = [@ EXCEPT !.sent = Append(@, task[i].value)]]
          /\ UNCHANGED <<caller, herr>>
  /\ task' = [task EXCEPT ![i] =
       [@ EXCEPT !.pc = IF @ = "send" THEN "deferred" ELSE "exit"]]
  /\ UNCHANGED <<traceVars, constructorVars, pureVars, ctxErr, crashed>>

\* The deferred function runs, when the goroutine's function returns or
\* panics: it calls recover, and sends the panic error if it recovered
\* something.
Task_deferred(i) ==
  /\ task[i].pc = "deferred"
  /\ LET r == recover(task[i].panic)
         send == DeferredSend(r.value)
     IN  task' = [task EXCEPT ![i] =
           IF send # <<>>
           THEN [@ EXCEPT !.pc = "send_panic", !.value = send[1],
                          !.panic = IF r.panicking THEN @ ELSE NoPanic]
           ELSE [@ EXCEPT !.pc = "exit",
                          !.panic = IF r.panicking THEN @ ELSE NoPanic]]
  /\ UNCHANGED <<traceVars, constructorVars, pureVars, ctxErr, errch, caller, herr, crashed, hlog>>

\* The goroutine ends; a panic nobody recovered ends the process.
Task_exit(i) ==
  /\ task[i].pc = "exit"
  /\ task' = [task EXCEPT ![i] = [@ EXCEPT !.pc = "done"]]
  /\ crashed' = (crashed \/ task[i].panic # NoPanic)
  /\ UNCHANGED <<traceVars, constructorVars, pureVars, ctxErr, errch, caller, herr, hlog>>

(***************************************************************************)
(* NewUTLSConn                                                             *)
(***************************************************************************)
errUTLSIncompatibleStdlibConfig == "utls: incompatible stdlib config"

\* Errors: nil, or a message and the error it wraps (%w).
NilError == [msg |-> "<nil>", wraps |-> ""]
\* fmt.Errorf("%w: field %s is nonzero", errUTLSIncompatibleStdlibConfig, name)
IncompatibleFieldError(name) ==
  [ msg   |-> errUTLSIncompatibleStdlibConfig \o ": field " \o name \o " is nonzero",
    wraps |-> errUTLSIncompatibleStdlibConfig ]

\* A list of supported fields that has Certificates in it.
supportedFieldsAndCertificates ==
  { "DynamicRecordSizingDisabled", "InsecureSkipVerify", "NextProtos", "RootCAs",
    "ServerName", "Certificates" }

supportedFields ==
  { "DynamicRecordSizingDisabled", "InsecureSkipVerify", "NextProtos", "RootCAs",
    "ServerName" }

\* reflect.Value.IsZero of the field f of c: a slice is zero when it is nil.
IsZero(c, f) == c[f] = ZeroValue(f)

\* The loop over the fields, from the field at idx on: the name of the
\* first field that is not zero and not supported, or NoField.
NoField == ""
RECURSIVE FirstIncompatibleField(_, _)
FirstIncompatibleField(c, idx) ==
  IF idx > Len(ConfigFields) THEN NoField
  ELSE IF IsZero(c, ConfigFields[idx]) THEN FirstIncompatibleField(c, idx + 1)
  ELSE IF ConfigFields[idx] \in supportedFields THEN FirstIncompatibleField(c, idx + 1)
  ELSE ConfigFields[idx]

\* The fields of utls.Config the model keeps, with their defaults.
UConfigDefaults == ZeroConfig

\* A utls.Config made without the server name.
UConfigWithoutServerName(c) ==
  [ UConfigDefaults EXCEPT
      !["DynamicRecordSizingDisabled"] = c["DynamicRecordSizingDisabled"],
      !["InsecureSkipVerify"] = c["InsecureSkipVerify"],
      !["RootCAs"] = c["RootCAs"],
      !["NextProtos"] = c["NextProtos"] ]

\* uConfig := &utls.Config{...}
UConfig(c) ==
  [ UConfigDefaults EXCEPT
      !["DynamicRecordSizingDisabled"] = c["DynamicRecordSizingDisabled"],
      !["InsecureSkipVerify"] = c["InsecureSkipVerify"],
      !["RootCAs"] = c["RootCAs"],
      !["NextProtos"] = c["NextProtos"],
      !["ServerName"] = c["ServerName"] ]

\* utls.UClient(conn, uConfig, *cid)
UClient(conn, uConfig, cid) == [conn |-> conn, config |-> uConfig, clientHelloID |-> cid]

NilConn == [isNil |-> TRUE]

NewUTLSConn(conn, c, cid) ==
  LET name == FirstIncompatibleField(c, 1)
  IN  IF name # NoField
      THEN [called |-> TRUE, conn |-> NilConn, err |-> IncompatibleFieldError(name)]
      ELSE [ called |-> TRUE,
             conn   |-> [ isNil |-> FALSE,
                          UConn |-> UClient(conn, UConfig(c), cid),
                          testableHandshake |-> NilFunc,
                          nc |-> conn ],
             err    |-> NilError ]

\* The raw connections and the client hello IDs NewUTLSConn is given.
RawConns == {"conn#1", "conn#2"}
ClientHelloIDs == {"HelloFirefox_55", "HelloChrome_70"}

NewUTLSConn_call ==
  /\ newConn = NotCalled
  /\ \E cid \in ClientHelloIDs :
       newConn' = NewUTLSConn(rawConn, config, cid)
  /\ UNCHANGED <<traceVars, handshakeVars, pureVars, config, rawConn>>

(***************************************************************************)
(* oohelperd: ipInfoToEndpoints                                            *)
(***************************************************************************)
\* Strings whose bytes matter are sequences of one-character strings.
\* The byte of each character an address or a port is written with.
Byte(c) ==
  CASE c = "%" -> 37 [] c = "." -> 46
    [] c = "0" -> 48 [] c = "1" -> 49 [] c = "2" -> 50 [] c = "3" -> 51
    [] c = "4" -> 52 [] c = "5" -> 53 [] c = "6" -> 54 [] c = "7" -> 55
    [] c = "8" -> 56 [] c = "9" -> 57 [] c = ":" -> 58
    [] c = "[" -> 91 [] c = "]" -> 93
    [] c = "a" -> 97 [] c = "b" -> 98 [] c = "c" -> 99
    [] c = "d" -> 100 [] c = "e" -> 101 [] c = "f" -> 102

\* strings.Compare(a, b), from the byte at i on: -1, 0 or 1.
RECURSIVE CompareFrom(_, _, _)
CompareFrom(a, b, i) ==
  IF i > Len(a) /\ i > Len(b) THEN 0
  ELSE IF i > Len(a) THEN -1
  ELSE IF i > Len(b) THEN 1
  ELSE IF Byte(a[i]) < Byte(b[i]) THEN -1
  ELSE IF Byte(a[i]) > Byte(b[i]) THEN 1
  ELSE CompareFrom(a, b, i + 1)

Compare(a, b) == CompareFrom(a, b, 1)

\* strings.IndexByte(s, c) >= 0
HasByte(s, c) == \E i \in 1..Len(s) : s[i] = c

\* net.JoinHostPort: a host with a colon or a percent sign goes in brackets.
JoinHostPort(host, port) ==
  IF HasByte(host, ":") \/ HasByte(host, "%")
  THEN <<"[">> \o host \o <<"]", ":">> \o port
  ELSE host \o <<":">> \o port

Port80 == <<"8", "0">>
Port443 == <<"4", "4", "3">>
Port8080 == <<"8", "0", "8", "0">>

\* The flags of a model.THIPInfo.
THIPInfoFlagResolvedByProbe == "THIPInfoFlagResolvedByProbe"
THIPInfoFlagResolvedByTH == "THIPInfoFlagResolvedByTH"
THIPInfoFlagIsBogon == "THIPInfoFlagIsBogon"

\* (info.Flags & model.THIPInfoFlagIsBogon) != 0
IsFlaggedBogon(info) == THIPInfoFlagIsBogon \in info.Flags

\* A choice of ports that takes port 80 alone for http.
ChoosePortsOnly80ForHTTP(u) ==
  IF u.Port # <<>> THEN <<u.Port>>
  ELSE IF u.Scheme = "https" THEN <<Port443>>
  ELSE IF u.Scheme = "http" THEN <<Port80>>
  ELSE <<>>

\* The ports ipInfoToEndpoints chooses for the URL u; u.Port is URL.Port().
ChoosePorts(u) ==
  IF u.Port # <<>> THEN <<u.Port>>
  ELSE IF u.Scheme = "https" THEN <<Port443>>
  ELSE IF u.Scheme = "http" THEN <<Port80, Port443>>
  ELSE <<>>

\* The inner loop: the endpoints of addr, for the ports from index i on.
RECURSIVE AppendPorts(_, _, _, _)
AppendPorts(out, addr, ports, i) ==
  IF i > Len(ports) THEN out
  ELSE AppendPorts(Append(out, [ Addr |-> addr,
                                 Epnt |-> JoinHostPort(addr, ports[i]),
                                 TLS  |-> ports[i] = Port443 ]),
                   addr, ports, i + 1)

\* The outer loop, which visits the addresses of the map in the given
\* order, from the address at index i on.
RECURSIVE AppendAddrs(_, _, _, _, _)
AppendAddrs(out, order, info, ports, i) ==
  IF i > Len(order) THEN out
  ELSE IF IsFlaggedBogon(info[order[i]])
       THEN AppendAddrs(out, order, info, ports, i + 1)
       ELSE AppendAddrs(AppendPorts(out, order[i], ports, 1), order, info, ports, i + 1)

\* less(i, j) of the sort: strings.Compare(out[i].Epnt, out[j].Epnt) < 0
EpntLess(a, b) == Compare(a.Epnt, b.Epnt) < 0

\* Put e in the sorted sequence s behind the last element that is not
\* greater than it, so that equal elements keep their order.
RECURSIVE InsertStable(_, _)
InsertStable(s, e) ==
  IF s = <<>> THEN <<e>>
  ELSE IF EpntLess(e, s[Len(s)])
       THEN Append(InsertStable(SubSeq(s, 1, Len(s) - 1), e), s[Len(s)])
       ELSE Append(s, e)

\* sort.SliceStable of the first n elements of s.
RECURSIVE SliceStable(_, _)
SliceStable(s, n) ==
  IF n = 0 THEN <<>> ELSE InsertStable(SliceStable(s, n - 1), s[n])

\* ipInfoToEndpoints, when the range over the map visits the addresses in
\* the given order.
ipInfoToEndpoints(u, info, order) ==
  LET ports == ChoosePorts(u)
      out == AppendAddrs(<<>>, order, info, ports, 1)
  IN  SliceStable(out, Len(out))

\* The addresses, URLs and maps ipInfoToEndpoints is given.
Addresses ==
  << <<"1", ".", "1", ".", "1", ".", "1">>,
     <<"1", ".", "1", ".", "1", ".", "1", "0">>,
     <<"2", "a", ":", ":", "1">>,
     <<"1", "0", ".", "0", ".", "0", ".", "1">> >>

KnownAddresses == {Addresses[k] : k \in 1..MaxAddresses}

URLs == [Scheme : {"http", "https", "ftp"}, Port : {<<>>, Port80, Port443, Port8080}]

FlagSets ==
  { {THIPInfoFlagResolvedByProbe}, {THIPInfoFlagResolvedByTH},
    {THIPInfoFlagResolvedByProbe, THIPInfoFlagIsBogon},
    {THIPInfoFlagResolvedByProbe, THIPInfoFlagResolvedByTH, THIPInfoFlagIsBogon} }

IPInfos ==
  UNION {[S -> [ASN : {0}, Flags : FlagSets]] : S \in SUBSET KnownAddresses}

\* The orders in which a range over a map with the keys S can visit them.
RangeOrders(S) ==
  {o \in [1..Cardinality(S) -> S] : \A i, j \in 1..Cardinality(S) : i # j => o[i] # o[j]}

ipInfoToEndpoints_call ==
  /\ endpoints = NotCalled
  /\ \E order \in RangeOrders(DOMAIN ipinfo) :
       endpoints' = [called |-> TRUE, out |-> ipInfoToEndpoints(URL, ipinfo, order)]
  /\ UNCHANGED <<traceVars, utlsVars, annotation, URL, ipinfo>>

(***************************************************************************)
(* Specifications.                                                         *)
(***************************************************************************)
Step(g, I) ==
  \/ Read_call(g, I) \/ Read_underlying(g, I) \/ Read_emit(g)
  \/ Write_call(g, I) \/ Write_underlying(g, I) \/ Write_emit(g)
  \/ ReadFrom_call(g, I) \/ ReadFrom_underlying(g, I) \/ ReadFrom_emit(g)
  \/ WriteTo_call(g, I) \/ WriteTo_underlying(g, I) \/ WriteTo_emit(g)
  \/ updateBytesReceivedMapNetConn_lock(g) \/ updateBytesReceivedMapNetConn_load(g)
  \/ updateBytesReceivedMapNetConn_add(g)
  \/ CloneBytesReceivedMap_call(g, I) \/ CloneBytesReceivedMap_lock(g)
  \/ CloneBytesReceivedMap_copy(g) \/ CloneBytesReceivedMap_return(g)
  \/ NetworkEvents_call(g, I) \/ FirstNetworkEventOrNil_call(g, I)
  \/ NetworkEvents_receive(g) \/ NetworkEvents_default(g)

\* Two goroutines use one Trace concurrently.
Next == \E g \in Goroutines : Step(g, ConcurrentInputs)

Spec == Init /\ [][Next]_vars

\* The same, from a Trace with a smaller channel, and with the fairness of
\* the Go scheduler and of sync.Mutex: a goroutine that can run does run,
\* and a goroutine waiting for the mutex gets it (the mutex hands itself to
\* a starving waiter).  No fairness is asked of the underlying calls, which
\* may block for ever, nor of the callers, which may stop calling.
FairNext == \E g \in Goroutines : Step(g, FairInputs)

Fairness ==
  \A g \in Goroutines :
    /\ WF_vars(Read_emit(g)) /\ WF_vars(Write_emit(g))
    /\ WF_vars(ReadFrom_emit(g)) /\ WF_vars(WriteTo_emit(g))
    /\ SF_vars(updateBytesReceivedMapNetConn_lock(g))
    /\ WF_vars(updateBytesReceivedMapNetConn_load(g))
    /\ WF_vars(updateBytesReceivedMapNetConn_add(g))
    /\ WF_vars(CloneBytesReceivedMap_copy(g))
    /\ WF_vars(CloneBytesReceivedMap_return(g))

FairSpec == FairInit /\ [][FairNext]_vars /\ Fairness

\* HandshakeContext is called up to MaxHandshakes times, each call after
\* the one before has returned; the goroutines of earlier calls go on.
HandshakeStep(i) ==
  \/ HandshakeContext_call(i) \/ Context_done(i)
  \/ HandshakeContext_receive(i) \/ HandshakeContext_done(i) \/ HandshakeContext_wait(i)
  \/ Handshake_return(i) \/ Handshake_panic(i)
  \/ Task_send(i) \/ Task_deferred(i) \/ Task_exit(i)

HandshakeNext == \E i \in HandshakeIds : HandshakeStep(i)

HandshakeInit == InitWith(NetworkEventBufferSize, {1}, {NilTags})

HandshakeSpec == HandshakeInit /\ [][HandshakeNext]_vars

\* The same, with the fairness of the Go scheduler for the goroutine of a
\* call, and with handshake functions that return or panic in the end.
HandshakeFairness ==
  \A i \in HandshakeIds :
    /\ WF_vars(Handshake_return(i) \/ Handshake_panic(i))
    /\ WF_vars(Task_send(i)) /\ WF_vars(Task_deferred(i)) /\ WF_vars(Task_exit(i))

HandshakeFairSpec == HandshakeInit /\ [][HandshakeNext]_vars /\ HandshakeFairness

\* NewUTLSConn is called with any of the configurations.
ConstructorInit ==
  /\ TraceInit(NetworkEventBufferSize, {1}, {NilTags})
  /\ NoHandshake
  /\ config \in Configs
  /\ rawConn \in RawConns
  /\ newConn = NotCalled
  /\ NoPureCall

ConstructorNext == NewUTLSConn_call

ConstructorSpec == ConstructorInit /\ [][ConstructorNext]_vars

\* One goroutine makes one call after the other.
SeqNext == Step(Owner, SequentialInputs)

SeqSpec == SeqInit /\ [][SeqNext]_vars

\* One goroutine updates the bytes received map directly and clones it.
AccountingNext ==
  \/ updateBytesReceivedMapNetConn_call(Owner, AccountingInputs)
  \/ updateBytesReceivedMapNetConn_lock(Owner)
  \/ updateBytesReceivedMapNetConn_load(Owner)
  \/ updateBytesReceivedMapNetConn_add(Owner)
  \/ CloneBytesReceivedMap_call(Owner, AccountingInputs)
  \/ CloneBytesReceivedMap_lock(Owner)
  \/ CloneBytesReceivedMap_copy(Owner)
  \/ CloneBytesReceivedMap_return(Owner)

AccountingSpec == Init /\ [][AccountingNext]_vars

\* Two goroutines update the bytes received map directly and clone it.
AccountingStep(g, I) ==
  \/ updateBytesReceivedMapNetConn_call(g, I)
  \/ updateBytesReceivedMapNetConn_lock(g)
  \/ updateBytesReceivedMapNetConn_load(g)
  \/ updateBytesReceivedMapNetConn_add(g)
  \/ CloneBytesReceivedMap_call(g, I)
  \/ CloneBytesReceivedMap_lock(g)
  \/ CloneBytesReceivedMap_copy(g)
  \/ CloneBytesReceivedMap_return(g)

ConcurrentAccountingNext ==
  \E g \in Goroutines : AccountingStep(g, ConcurrentAccountingInputs)

ConcurrentAccountingSpec == Init /\ [][ConcurrentAccountingNext]_vars

\* One goroutine calls the wrappers one after the other while time passes,
\* and makes annotations, for a Trace with any of the indexes and tags.
EventStep(g, I) ==
  \/ Read_call(g, I) \/ Read_underlying(g, I) \/ Read_emit(g)
  \/ Write_call(g, I) \/ Write_underlying(g, I) \/ Write_emit(g)
  \/ ReadFrom_call(g, I) \/ ReadFrom_underlying(g, I) \/ ReadFrom_emit(g)
  \/ WriteTo_call(g, I) \/ WriteTo_underlying(g, I) \/ WriteTo_emit(g)
  \/ updateBytesReceivedMapNetConn_lock(g) \/ updateBytesReceivedMapNetConn_load(g)
  \/ updateBytesReceivedMapNetConn_add(g)
  \/ NewAnnotationArchivalNetworkEvent_call(I)

EventNext == EventStep(Owner, EventInputs)

EventInit ==
  InitWith(NetworkEventBufferSize, {1, 2}, {NilTags, Tags(<<>>), Tags(<<"antani">>)})

EventSpec == EventInit /\ [][EventNext]_vars

\* ipInfoToEndpoints is called with any of the URLs and of the maps.
EndpointsInit ==
  /\ TraceInit(NetworkEventBufferSize, {1}, {NilTags})
  /\ NoHandshake
  /\ NoConstruction
  /\ annotation = <<>>
  /\ URL \in URLs
  /\ ipinfo \in IPInfos
  /\ endpoints = NotCalled

EndpointsNext == ipInfoToEndpoints_call

EndpointsSpec == EndpointsInit /\ [][EndpointsNext]_vars

\* Two goroutines read from a stream connection and drain the channel.
DrainStep(g, I) ==
  \/ Read_call(g, I) \/ Read_underlying(g, I) \/ Read_emit(g)
  \/ updateBytesReceivedMapNetConn_lock(g) \/ updateBytesReceivedMapNetConn_load(g)
  \/ updateBytesReceivedMapNetConn_add(g)
  \/ NetworkEvents_call(g, I) \/ FirstNetworkEventOrNil_call(g, I)
  \/ NetworkEvents_receive(g) \/ NetworkEvents_default(g)

DrainNext == \E g \in Goroutines : DrainStep(g, DrainInputs)

DrainSpec == Init /\ [][DrainNext]_vars

\* Two goroutines read from stream connections, drain the channel and clone
\* the bytes received map.
InterleavedStep(g, I) ==
  \/ Read_call(g, I) \/ Read_underlying(g, I) \/ Read_emit(g)
  \/ updateBytesReceivedMapNetConn_lock(g) \/ updateBytesReceivedMapNetConn_load(g)
  \/ updateBytesReceivedMapNetConn_add(g)
  \/ CloneBytesReceivedMap_call(g, I) \/ CloneBytesReceivedMap_lock(g)
  \/ CloneBytesReceivedMap_copy(g) \/ CloneBytesReceivedMap_return(g)
  \/ NetworkEvents_call(g, I) \/ NetworkEvents_receive(g) \/ NetworkEvents_default(g)

InterleavedNext == \E g \in Goroutines : InterleavedStep(g, InterleavedInputs)

InterleavedSpec == Init /\ [][InterleavedNext]_vars

(***************************************************************************)
(* Properties.                                                             *)
(***************************************************************************)
Range(q) == {q[i] : i \in 1..Len(q)}
IsPrefix(a, b) == Len(a) <= Len(b) /\ a = SubSeq(b, 1, Len(a))
Last(q) == q[Len(q)]
\* The goroutine g takes, in this step, the select that sends its event.
Emits(g) == pc[g] = "emit" /\ pc'[g] # "emit"

\* C1: once the underlying call of a wrapped Read, Write, ReadFrom or WriteTo
\* has returned, the wrapper returns to its caller in the end, whatever the
\* other goroutines do, also with a full channel that nobody drains.
EmissionNeverBlocks ==
  \A g \in Goroutines : (pc[g] = "emit") ~> (pc[g] = "idle")

\* A wrapper has returned after finding the channel full, and the channel
\* is still full: nothing was drained.
EmissionNeverBlocksWitness ==
  \E g \in Goroutines :
    /\ pc[g] = "idle" /\ ret[g].op \in IOOps /\ ret[g].dropped
    /\ Len(networkEvent) = capacity /\ ~drained

\* C2: an emission that finds the channel full leaves the channel as it is,
\* and the call that dropped its event returns the byte count and the error
\* of the underlying call, nothing else.
OverflowIsNotAnError ==
  [][\A g \in Goroutines :
       /\ (Emits(g) /\ Len(networkEvent) = capacity) =>
            (networkEvent' = networkEvent /\ (loc'[g].dropped \/ ret'[g].dropped))
       /\ ret'[g].dropped =>
            (ret'[g].count = ret'[g].und.count /\ ret'[g].err = ret'[g].und.err)
    ]_vars

\* A call whose underlying call failed has dropped its event and returned.
OverflowIsNotAnErrorWitness ==
  \E g \in Goroutines :
    /\ ret[g].dropped /\ ret[g].op \in IOOps
    /\ ret[g].err # NoError /\ ret[g].count > 0
    /\ Len(networkEvent) = capacity

\* The tag each wrapper is to give its event.
TagOf(op) ==
  CASE op = OpRead -> "read"
    [] op = OpWrite -> "write"
    [] op = OpReadFrom -> "read_from"
    [] op = OpWriteTo -> "write_to"

\* The underlying calls whose wrapper has not yet reached its select.
PendingEmit == {loc[g].ref : g \in {h \in Goroutines : pc[h] = "emit"}}

\* C3: as long as no drain was called and no more underlying calls were made
\* than the channel holds, the channel holds one event per underlying call
\* whose wrapper went through its select, with the tag of that call.
OneEventPerCall ==
  (~drained /\ Len(calls) <= capacity) =>
     /\ Len(networkEvent) = Len(calls) - Cardinality(PendingEmit)
     /\ \A i \in (1..Len(calls)) \ PendingEmit :
          /\ Cardinality({k \in 1..Len(networkEvent) : networkEvent[k].ref = i}) = 1
          /\ \A k \in 1..Len(networkEvent) :
               networkEvent[k].ref = i =>
                 networkEvent[k].Operation = TagOf(calls[i].op)

\* As many calls as the channel holds were made, reads and writes among
\* them, and all have returned.
OneEventPerCallWitness ==
  /\ ~drained /\ Len(calls) = capacity /\ Len(networkEvent) = capacity
  /\ \A g \in Goroutines : pc[g] = "idle"
  /\ \E i, j \in 1..Len(calls) : calls[i].op = OpRead /\ calls[j].op = OpWrite

\* C4: a wrapper returns the byte count and the error of the underlying
\* call, and ReadFrom its address too, whether the call failed or not; and
\* an emission that finds room appends an event with the byte count of the
\* underlying call and with a failure exactly when that call failed.
ResultsPassThrough ==
  [][\A g \in Goroutines :
       /\ ret'[g].op \in IOOps =>
            /\ ret'[g].count = ret'[g].und.count
            /\ ret'[g].err = ret'[g].und.err
            /\ ret'[g].addr = ret'[g].und.addr
       /\ (Emits(g) /\ Len(networkEvent) < capacity) =>
            /\ Len(networkEvent') = Len(networkEvent) + 1
            /\ SubSeq(networkEvent', 1, Len(networkEvent)) = networkEvent
            /\ Last(networkEvent').ref = loc[g].ref
            /\ Last(networkEvent').NumBytes = loc[g].und.count
            /\ (Last(networkEvent').Failure = <<>>) = (loc[g].und.err = NoError)
    ]_vars

\* A ReadFrom that failed after reading bytes from a peer has returned them
\* all, and its event is in the channel.
ResultsPassThroughWitness ==
  \E g \in Goroutines :
    /\ ret[g].op = OpReadFrom /\ ret[g].err # NoError /\ ret[g].count > 0
    /\ ~ret[g].addr.isNil
    /\ \E k \in 1..Len(networkEvent) :
         /\ networkEvent[k].ref = ret[g].ref
         /\ networkEvent[k].Failure # <<>>
         /\ networkEvent[k].NumBytes = ret[g].count

\* C5: a NetworkEvents call during which no other goroutine sent to or
\* received from the channel returns the events the channel held when it
\* was called, oldest first.
DrainAllIsFIFO ==
  \A g \in Goroutines :
    (ret[g].op = OpNetworkEvents /\ ~ret[g].sentDuring /\ ~ret[g].recvDuring) =>
      ret[g].out = ret[g].snap

\* An undisturbed NetworkEvents has returned two events.
DrainAllIsFIFOWitness ==
  \E g \in Goroutines :
    /\ ret[g].op = OpNetworkEvents /\ ~ret[g].sentDuring /\ ~ret[g].recvDuring
    /\ Len(ret[g].out) >= 2 /\ ret[g].out[1].ref # ret[g].out[2].ref

\* C6: after a drain has returned, and until the next event is sent, the
\* channel is empty, and a drain called and finished meanwhile returns
\* nothing.
SecondDrainIsEmpty ==
  /\ quiet => networkEvent = <<>>
  /\ \A g \in Goroutines :
       (ret[g].op \in DrainOps /\ ret[g].startQuiet /\ ~ret[g].sentDuring) =>
         (ret[g].out = <<>> /\ ret[g].first = <<>>)

\* A drain has returned an event, and the drain called after it has
\* returned as well.
SecondDrainIsEmptyWitness ==
  \E g, h \in Goroutines :
    /\ g # h
    /\ ret[h].op = OpNetworkEvents /\ ret[h].out # <<>>
    /\ ret[g].op = OpNetworkEvents /\ ret[g].startQuiet /\ ~ret[g].sentDuring
    /\ quiet

\* C7: a FirstNetworkEventOrNil call during which no other goroutine sent
\* to or received from the channel leaves the channel empty and returns the
\* oldest of the events the channel held, or nil when it held none.
DrainFirstOrNil ==
  \A g \in Goroutines :
    (/\ ret[g].op = OpFirstNetworkEventOrNil
     /\ ~ret[g].sentDuring /\ ~ret[g].recvDuring) =>
      /\ ret[g].left = <<>>
      /\ ret[g].out = <<>>
      /\ ret[g].first = IF ret[g].snap = <<>> THEN <<>> ELSE <<ret[g].snap[1]>>

\* An undisturbed FirstNetworkEventOrNil found two events, returned the
\* older one and left nothing.
DrainFirstOrNilWitness ==
  \E g \in Goroutines :
    /\ ret[g].op = OpFirstNetworkEventOrNil
    /\ ~ret[g].sentDuring /\ ~ret[g].recvDuring
    /\ Len(ret[g].snap) >= 2 /\ ret[g].first = <<ret[g].snap[1]>>
    /\ networkEvent = <<>>

\* C8, as claimed: NetworkEvents returns only events the channel held when
\* it was called.
DrainReturnsOnlySnapshot ==
  \A g \in Goroutines :
    ret[g].op = OpNetworkEvents => Range(ret[g].out) \subseteq Range(ret[g].snap)

\* C8, amended: a NetworkEvents call during which no other goroutine
\* received from the channel returns the events the channel held when it
\* was called, oldest first, followed by events sent while it was running;
\* it returns more than the channel held only if an event was sent meanwhile.
DrainReturnsSnapshotFirst ==
  \A g \in Goroutines :
    (ret[g].op = OpNetworkEvents /\ ~ret[g].recvDuring) =>
      /\ IsPrefix(ret[g].snap, ret[g].out)
      /\ Len(ret[g].out) > Len(ret[g].snap) => ret[g].sentDuring

\* NetworkEvents has returned the event the channel held when it was called
\* and then one sent while it was running.
DrainReturnsSnapshotFirstWitness ==
  \E g \in Goroutines :
    /\ ret[g].op = OpNetworkEvents /\ ~ret[g].recvDuring /\ ret[g].sentDuring
    /\ ret[g].snap # <<>> /\ Len(ret[g].out) > Len(ret[g].snap)

\* C9, as claimed: the events of the stream connection are in the channel
\* in the order in which their underlying calls returned.
EventsInCompletionOrder ==
  \A i, j \in 1..Len(networkEvent) :
    (/\ i < j
     /\ networkEvent[i].Operation \in {"read", "write"}
     /\ networkEvent[j].Operation \in {"read", "write"}) =>
      networkEvent[i].ref < networkEvent[j].ref

\* C9, amended: the events of the calls one goroutine makes, one after the
\* other, are in the channel in the order in which their underlying calls
\* returned.
EventsInCallerOrder ==
  \A i, j \in 1..Len(networkEvent) :
    (i < j /\ calls[networkEvent[i].ref].by = calls[networkEvent[j].ref].by) =>
      networkEvent[i].ref < networkEvent[j].ref

\* The channel holds the events of two calls of one goroutine and of a call
\* of the other.
EventsInCallerOrderWitness ==
  /\ Len(networkEvent) >= 2
  /\ \E i, j \in 1..Len(networkEvent) :
       /\ i < j
       /\ calls[networkEvent[i].ref].by = calls[networkEvent[j].ref].by
       /\ networkEvent[i].Operation = "read" /\ networkEvent[j].Operation = "write"

\* The protocol the claim gives a network name.
FamilyOf(network) ==
  CASE network \in {"tcp", "tcp4", "tcp6"} -> "tcp"
    [] network \in {"udp", "udp4", "udp6"} -> "udp"
    [] OTHER -> network

RECURSIVE SumOver(_, _)
SumOver(f, S) ==
  IF S = {} THEN 0
  ELSE LET x == CHOOSE y \in S : TRUE IN f[x] + SumOver(f, S \ {x})

\* The map the claim expects after the updates tallied in r, which maps
\* each (network, address) pair to the bytes recorded under it.
ExpectedMap(r) ==
  LET keyOf(p) == p[2] \o " " \o FamilyOf(p[1])
      keys == {keyOf(p) : p \in DOMAIN r}
  IN  [k \in keys |-> SumOver(r, {p \in DOMAIN r : keyOf(p) = k})]

\* C10: the map holds, under each key "<address> <protocol>", the sum of
\* the counts of the updates whose network belongs to that protocol, and no
\* other key; and so does a clone, for the updates made before it.
AccountingSumsByKey ==
  /\ bytesReceivedMap = ExpectedMap(recorded)
  /\ \A g \in Goroutines :
       ret[g].op = OpClone => ret[g].map = ExpectedMap(ret[g].recordedAt)

\* 100 bytes under tcp4 and 50 under tcp6 for one address are cloned as 150
\* under tcp.
AccountingSumsByKeyWitness ==
  \E g \in Goroutines :
    /\ ret[g].op = OpClone
    /\ DOMAIN ret[g].recordedAt = {<<"tcp4", "1.2.3.4:443">>, <<"tcp6", "1.2.3.4:443">>}
    /\ ret[g].recordedAt[<<"tcp4", "1.2.3.4:443">>] = 100
    /\ ret[g].recordedAt[<<"tcp6", "1.2.3.4:443">>] = 50
    /\ DOMAIN ret[g].map = {"1.2.3.4:443 tcp"}
    /\ ret[g].map["1.2.3.4:443 tcp"] = 150

\* Whether the tally a counts no update that the tally b does not count.
TallyWithin(a, b) ==
  /\ DOMAIN a \subseteq DOMAIN b
  /\ \A p \in DOMAIN a : a[p] <= b[p]

\* C11: whatever the interleaving of updates and clones, the map holds
\* under each key the sum of the counts of all the updates that have
\* completed, so that no update is lost; and a clone holds under each key
\* the sum of the counts of the updates that had completed when it took the
\* mutex, which are some of the updates completed since.
AccountingIsAtomic ==
  /\ bytesReceivedMap = ExpectedMap(recorded)
  /\ \A g \in Goroutines :
       ret[g].op = OpClone =>
         /\ ret[g].map = ExpectedMap(ret[g].recordedAt)
         /\ TallyWithin(ret[g].recordedAt, recorded)

\* A goroutine waits for the mutex to add to a key to which an update has
\* added already and to which the other goroutine is adding now.
AccountingIsAtomicWitness ==
  \E g, h \in Goroutines :
    /\ g # h
    /\ pc[g] = "lock" /\ pc[h] = "add" /\ loc[g].key = loc[h].key
    /\ loc[h].old > 0

\* What the holder of the map that g's CloneBytesReceivedMap returned reads
\* in it now.
ObservedClone(r) ==
  IF r.mapObj = TraceMapObject THEN bytesReceivedMap ELSE r.map

\* C12: the map a clone returned reads, now and after any later update, as
\* the bytes received map read at the moment the clone held the mutex, which
\* is what it read when the clone was called unless an update completed in
\* between; and no step of a clone changes the bytes received map.
CloneIsPointInTime ==
  [][\A g \in Goroutines :
       /\ ret'[g].op = OpClone =>
            /\ ObservedClone(ret[g])' = ret'[g].mapAtLock
            /\ ~ret'[g].updatedDuring => ObservedClone(ret[g])' = ret'[g].mapAtCall
       /\ (loc[g].op = OpClone /\ (pc'[g] # pc[g] \/ loc'[g].copy # loc[g].copy)) =>
            bytesReceivedMap' = bytesReceivedMap
       /\ (pc[g] = "idle" /\ loc'[g].op = OpClone) =>
            bytesReceivedMap' = bytesReceivedMap
    ]_vars

\* A clone was called on a map that held bytes and returned them, and an
\* update made since has changed the map of the Trace.
CloneIsPointInTimeWitness ==
  \E g \in Goroutines :
    /\ ret[g].op = OpClone /\ ret[g].map # <<>>
    /\ ret[g].map = ret[g].mapAtCall
    /\ \E k \in DOMAIN ret[g].map : bytesReceivedMap[k] > ret[g].map[k]
    /\ DOMAIN bytesReceivedMap # DOMAIN ret[g].map

\* The goroutine g takes a step of its call.
Moves(g) == pc'[g] # pc[g]

\* C13: no step of a Write or of a WriteTo changes the bytes received map,
\* whatever the underlying call returned; a step that changes it is a step
\* of a Read or of a ReadFrom.
WritesLeaveAccountingAlone ==
  [][/\ \A g \in Goroutines :
          (Moves(g) /\ ( \/ loc[g].op \in {OpWrite, OpWriteTo}
                         \/ loc'[g].op \in {OpWrite, OpWriteTo} )) =>
            (bytesReceivedMap' = bytesReceivedMap /\ bytesReceivedMu' = bytesReceivedMu)
     /\ bytesReceivedMap' # bytesReceivedMap =>
          \E g \in Goroutines : Moves(g) /\ loc[g].op \in {OpRead, OpReadFrom}
    ]_vars

\* After a Read of two bytes the map holds them; a write that failed after
\* writing two bytes has returned since, and the map still holds two bytes
\* under the one key.
WritesLeaveAccountingAloneWitness ==
  \E g \in Goroutines :
    /\ ret[g].op \in {OpWrite, OpWriteTo}
    /\ ret[g].count = 2 /\ ret[g].err # NoError
    /\ DOMAIN bytesReceivedMap = {"1.2.3.4:443 tcp"}
    /\ bytesReceivedMap["1.2.3.4:443 tcp"] = 2

\* C14: a ReadFrom whose underlying call returned a nil address returns
\* right after its select, with the values of the underlying call; none of
\* its steps changes the bytes received map or takes its mutex; and its
\* event, when the channel has room, goes in with an empty address.
NilAddrReadFromSkipsAccounting ==
  [][\A g \in Goroutines :
       /\ (Moves(g) /\ loc'[g].op = OpReadFrom /\ loc'[g].und.addr.isNil) =>
            (bytesReceivedMap' = bytesReceivedMap /\ bytesReceivedMu' = bytesReceivedMu)
       /\ (Emits(g) /\ loc[g].op = OpReadFrom /\ loc[g].und.addr.isNil) =>
            /\ pc'[g] = "idle"
            /\ bytesReceivedMap' = bytesReceivedMap
            /\ bytesReceivedMu' = bytesReceivedMu
            /\ ret'[g].count = loc[g].und.count
            /\ ret'[g].addr = NilAddr
            /\ ret'[g].err = loc[g].und.err
            /\ IF Len(networkEvent) < capacity
               THEN /\ Len(networkEvent') = Len(networkEvent) + 1
                    /\ Last(networkEvent').ref = loc[g].ref
                    /\ Last(networkEvent').Operation = "read_from"
                    /\ Last(networkEvent').Address = ""
               ELSE networkEvent' = networkEvent
    ]_vars

\* A ReadFrom that failed with a nil address has returned, its event is in
\* the channel with an empty address, and the map holds what an earlier
\* ReadFrom added and nothing else.
NilAddrReadFromSkipsAccountingWitness ==
  \E g \in Goroutines :
    /\ ret[g].op = OpReadFrom /\ ret[g].addr.isNil /\ ret[g].err # NoError
    /\ \E k \in 1..Len(networkEvent) :
         networkEvent[k].ref = ret[g].ref /\ networkEvent[k].Address = ""
    /\ DOMAIN bytesReceivedMap = {"8.8.8.8:53 udp"}

\* The key the claim gives the sender a of a datagram.
SenderKey(a) == a.string \o " " \o FamilyOf(a.network)

\* C15: a ReadFrom whose underlying call returned a sender goes on, after
\* its select, to update the map; the update adds the byte count of the
\* underlying call to the entry of the sender's address and protocol, and
\* leaves every other entry as it is.
SenderKeyedAccounting ==
  [][\A g \in Goroutines :
       /\ (Emits(g) /\ loc[g].op = OpReadFrom /\ ~loc[g].und.addr.isNil) =>
            (pc'[g] = "lock" /\ bytesReceivedMap' = bytesReceivedMap)
       /\ (pc[g] = "add" /\ Moves(g) /\ loc[g].op = OpReadFrom) =>
            LET k == SenderKey(loc[g].und.addr)
                before == IF k \in DOMAIN bytesReceivedMap
                          THEN bytesReceivedMap[k] ELSE 0
            IN  /\ ~loc[g].und.addr.isNil
                /\ DOMAIN bytesReceivedMap' = DOMAIN bytesReceivedMap \cup {k}
                /\ bytesReceivedMap'[k] = before + loc[g].und.count
                /\ \A j \in DOMAIN bytesReceivedMap \ {k} :
                     bytesReceivedMap'[j] = bytesReceivedMap[j]
                /\ ret'[g].op = OpReadFrom
    ]_vars

\* Datagrams of two senders, one on udp and one on udp4, were read from one
\* socket: the map holds the bytes of each under a key of its own.
SenderKeyedAccountingWitness ==
  /\ DOMAIN bytesReceivedMap = {"8.8.8.8:53 udp", "8.8.4.4:53 udp"}
  /\ bytesReceivedMap["8.8.8.8:53 udp"] = 2
  /\ bytesReceivedMap["8.8.4.4:53 udp"] = 2
  /\ \E g \in Goroutines : ret[g].op = OpReadFrom /\ ~ret[g].addr.isNil

\* The error the goroutine of a call delivers for what the handshake
\* function did.
Delivered(outcome) ==
  IF outcome = "panic" THEN "utls: handshake panic" ELSE outcome

\* C16: no panic of a handshake function ends the process; the goroutine
\* of a call whose handshake function panicked ends, recovered, after
\* sending the handshake panic error, and never leaves the caller waiting;
\* and the call returns that error unless the select found the context
\* ended, in which case it may return the context's error.
HandshakePanicIsReturned ==
  /\ ~crashed
  /\ \A i \in HandshakeIds :
       hlog[i].outcome = "panic" =>
         /\ task[i].pc = "done" =>
              /\ task[i].panic = NoPanic
              /\ hlog[i].sent = <<"utls: handshake panic">>
              /\ caller[i] # "waiting"
         /\ caller[i] = "returned" =>
              /\ herr[i] \in {"utls: handshake panic", ctxErr[i]}
              /\ hlog[i].saw = "result" => herr[i] = "utls: handshake panic"

\* The handshake function panicked under a context that never ended: the
\* call has returned the handshake panic error and the goroutine is over.
HandshakePanicIsReturnedWitness ==
  \E i \in HandshakeIds :
    /\ hlog[i].outcome = "panic" /\ hlog[i].fn = "UConn.Handshake"
    /\ ctxErr[i] = NoError
    /\ caller[i] = "returned" /\ herr[i] = "utls: handshake panic"
    /\ task[i].pc = "done" /\ ~crashed

\* C17, as claimed: a call with a context that had ended already returns
\* the error of the context, whatever the interleaving.
CancelledContextAlwaysWins ==
  \A i \in HandshakeIds :
    (caller[i] = "returned" /\ hlog[i].ctxAtCall # NoError) =>
      herr[i] = hlog[i].ctxAtCall

\* C17, amended: a call with a context that had ended already never waits;
\* it returns the error of the context when the select finds no result in
\* the channel, and that error or the result when it finds one.
CancelledContextNeverWaits ==
  \A i \in HandshakeIds :
    hlog[i].ctxAtCall # NoError =>
      /\ caller[i] # "waiting"
      /\ caller[i] = "returned" =>
           /\ hlog[i].saw \in {"done", "both"}
           /\ hlog[i].saw = "done" => herr[i] = hlog[i].ctxAtCall
           /\ hlog[i].saw = "both" =>
                herr[i] \in {hlog[i].ctxAtCall, Delivered(hlog[i].outcome)}

\* A call with a context that had ended already has returned the error of
\* the context while the handshake function is still running.
CancelledContextNeverWaitsWitness ==
  \E i \in HandshakeIds :
    /\ hlog[i].ctxAtCall = "context canceled"
    /\ caller[i] = "returned" /\ herr[i] = "context canceled"
    /\ task[i].pc = "handshake"

\* C18, as claimed: a call whose context ended while the goroutine had
\* delivered no result returns the error of the context.
ContextFiredFirstAlwaysWins ==
  \A i \in HandshakeIds :
    (caller[i] = "returned" /\ hlog[i].fired = "before") => herr[i] = ctxErr[i]

\* C18, amended: no caller waits once the context has ended; a call whose
\* select finds the context ended and no result in the channel returns the
\* error of the context as it is; and a call whose context ended while no
\* result had been delivered returns something else only if the result was
\* in the channel when the select was evaluated.
ContextErrorWhenNoResultYet ==
  \A i \in HandshakeIds :
    /\ ctxErr[i] # NoError => caller[i] # "waiting"
    /\ (caller[i] = "returned" /\ hlog[i].saw = "done") =>
         (herr[i] = ctxErr[i] /\ herr[i] # NoError)
    /\ (caller[i] = "returned" /\ hlog[i].fired = "before" /\ herr[i] # ctxErr[i]) =>
         (hlog[i].saw = "both" /\ herr[i] = Delivered(hlog[i].outcome))

\* The deadline of a context passed while the caller waited in the select:
\* the call has returned the deadline error and the handshake function is
\* still running.
ContextErrorWhenNoResultYetWitness ==
  \E i \in HandshakeIds :
    /\ hlog[i].ctxAtCall = NoError /\ hlog[i].fired = "before"
    /\ hlog[i].saw = "done"
    /\ caller[i] = "returned" /\ herr[i] = "context deadline exceeded"
    /\ task[i].pc = "handshake"

\* The call has returned the error of its context.
ReturnedOnDone(i) == caller[i] = "returned" /\ herr[i] \in ContextErrors

\* C19: the goroutine of a call never finds its send blocked and sends at
\* most once; when it is over it has sent one error, the one for what the
\* handshake function did; after the call has returned the error of its
\* context the goroutine still gets to its end, and its error stays in the
\* channel.
BackgroundTaskRunsToCompletion ==
  /\ [](\A i \in HandshakeIds :
          /\ task[i].pc \in {"send", "send_panic"} =>
               (caller[i] = "waiting" \/ Len(errch[i].buf) < errch[i].cap)
          /\ Len(hlog[i].sent) <= 1
          /\ task[i].pc = "done" => hlog[i].sent = <<Delivered(hlog[i].outcome)>>
          /\ (task[i].pc = "done" /\ ReturnedOnDone(i)) => errch[i].buf = hlog[i].sent)
  /\ \A i \in HandshakeIds : ReturnedOnDone(i) ~> (task[i].pc = "done")

\* A call returned the error of its context while the handshake function
\* was running; the function has panicked since, and the goroutine is over
\* with the handshake panic error left in the channel.
BackgroundTaskRunsToCompletionWitness ==
  \E i \in HandshakeIds :
    /\ ReturnedOnDone(i) /\ hlog[i].saw = "done"
    /\ task[i].pc = "done" /\ hlog[i].outcome = "panic"
    /\ errch[i].buf = <<"utls: handshake panic">>

\* The fields of the configuration that are not zero.
NonZeroFields == {f \in ConfigFieldNames : ~IsZero(config, f)}

\* The allow-list of the claim.
AllowList ==
  {"DynamicRecordSizingDisabled", "InsecureSkipVerify", "NextProtos", "RootCAs", "ServerName"}

\* C20: NewUTLSConn returns a connection and no error when every field of
\* the configuration that is not zero is in the allow-list; otherwise it
\* returns no connection and an error that wraps the incompatible
\* configuration error and names a field that is not zero and not in the
\* allow-list.
OnlyAllowListedFields ==
  newConn.called =>
    IF NonZeroFields \subseteq AllowList
    THEN ~newConn.conn.isNil /\ newConn.err = NilError
    ELSE /\ newConn.conn.isNil
         /\ newConn.err.wraps = "utls: incompatible stdlib config"
         /\ \E f \in NonZeroFields \ AllowList :
              newConn.err.msg =
                "utls: incompatible stdlib config: field " \o f \o " is nonzero"

\* A configuration with a server name, the next protocols and a client
\* certificate callback was refused with an error that names the callback.
OnlyAllowListedFieldsWitness ==
  /\ newConn.called /\ newConn.conn.isNil
  /\ config["ServerName"] = "dns.google"
  /\ config["NextProtos"] = Slice(<<"h2", "http/1.1">>)
  /\ config["GetClientCertificate"] = "func"
  /\ config["Certificates"] = NilSlice
  /\ newConn.err.msg =
       "utls: incompatible stdlib config: field GetClientCertificate is nonzero"

\* The events of the sequence q, by the underlying calls they belong to.
Refs(q) == {q[k].ref : k \in 1..Len(q)}

\* C21: a Read sends its event and adds its bytes to the map in two steps,
\* and holds nothing in between: the step that sends the event leaves the
\* map and the mutex alone and leaves the Read in front of the mutex, and the
\* step that changes the map leaves the channel alone.  So a drain can
\* return the event of a Read while a clone does not include its bytes, and
\* a clone can include the bytes of a Read whose event no drain has seen.
ReadAndAccountingAreNotAtomic ==
  [][\A g \in Goroutines :
       /\ (Emits(g) /\ loc[g].op = OpRead) =>
            /\ bytesReceivedMap' = bytesReceivedMap
            /\ bytesReceivedMu' = bytesReceivedMu
            /\ pc'[g] = "lock"
       /\ bytesReceivedMap' # bytesReceivedMap => networkEvent' = networkEvent
    ]_vars

\* Both interleavings in one state.  The Read of g has sent its event and
\* waits in front of the mutex; the event has left the channel, and nobody
\* is draining, so that a NetworkEvents call has returned it; the clone h
\* took afterwards has no entry for that Read.  The same clone includes the
\* bytes of a Read of h whose event is still in the channel.
ReadAndAccountingAreNotAtomicWitness ==
  \E g, h \in Goroutines :
    /\ g # h
    /\ pc[g] = "lock" /\ loc[g].op = OpRead /\ ~loc[g].dropped
    /\ loc[g].ucount > 0
    /\ loc[g].ref \notin Refs(networkEvent)
    /\ pc[h] = "idle" /\ ret[h].op = OpClone
    /\ loc[g].key \notin DOMAIN ret[h].map
    /\ \E k \in 1..Len(networkEvent) :
         LET e == networkEvent[k]
             key == MapKey(e.Address, NormalizeNetwork(e.Proto))
         IN  /\ e.Operation = ReadOperation /\ calls[e.ref].by = h /\ e.NumBytes > 0
             /\ key \in DOMAIN ret[h].map
             /\ ret[h].map[key] = e.NumBytes

\* Whether the context of call i ended before the goroutine sent its result.
ContextResolvedFirst(i) == hlog[i].ctxAtCall # NoError \/ hlog[i].fired = "before"

\* The three outcomes of a call: what the handshake function returned, the
\* handshake panic error when it panicked, the error of the context.
Outcomes(i) ==
  (IF hlog[i].outcome # "none" THEN {Delivered(hlog[i].outcome)} ELSE {})
    \cup (IF ctxErr[i] # NoError THEN {ctxErr[i]} ELSE {})

\* C22, as claimed: a call returns one of the three outcomes, and which one
\* is decided by what resolved first: the error of the context when the
\* context ended before the goroutine sent its result, and else the result.
FirstResolvedDecides ==
  \A i \in HandshakeIds :
    caller[i] = "returned" =>
      /\ herr[i] \in Outcomes(i)
      /\ herr[i] = IF ContextResolvedFirst(i) THEN ctxErr[i]
                   ELSE Delivered(hlog[i].outcome)

\* C22, amended: a call returns one of the three outcomes, and which one
\* is decided by the select: the result, unchanged, when only the channel has
\* resolved when the select takes its decision, the error of the context
\* when only the context has, either of the two when both have; and a call
\* whose handshake function returned and whose context has not ended
\* returned what the function returned.
SelectDecidesOutcome ==
  \A i \in HandshakeIds :
    caller[i] = "returned" =>
      /\ herr[i] \in Outcomes(i)
      /\ hlog[i].saw \in {"result", "done", "both"}
      /\ hlog[i].saw = "result" =>
           (hlog[i].outcome # "none" /\ herr[i] = Delivered(hlog[i].outcome))
      /\ hlog[i].saw = "done" => (ctxErr[i] # NoError /\ herr[i] = ctxErr[i])
      /\ hlog[i].saw = "both" => (hlog[i].outcome # "none" /\ ctxErr[i] # NoError)
      /\ (hlog[i].ctxAtCall = NoError /\ hlog[i].fired \in {"no", "late"}) =>
           (hlog[i].outcome \notin {"none", "panic"} => herr[i] = hlog[i].outcome)
      /\ (hlog[i].ctxAtCall = NoError /\ hlog[i].fired \in {"no", "late"}) =>
           hlog[i].saw = "result"

\* The handshake function failed and its result was in the channel before
\* the context ended; the select found both and the call has returned the
\* error of the context.
SelectDecidesOutcomeWitness ==
  \E i \in HandshakeIds :
    /\ caller[i] = "returned" /\ hlog[i].saw = "both"
    /\ hlog[i].ctxAtCall = NoError /\ hlog[i].fired = "after"
    /\ hlog[i].outcome = "tls: handshake failure"
    /\ herr[i] = ctxErr[i] /\ herr[i] \in ContextErrors

\* The offset of the present instant from the zero time of the Trace.
Now == TimeSince(clock, ZeroTime)

\* C23: a wrapper takes the start offset when it is called, before the
\* underlying call, and the end offset when the underlying call has
\* returned, and its event carries the two; the clock never going back,
\* every event in the channel ends no earlier than it starts.  An annotation
\* ends when it starts and has no network, no address, no bytes and no
\* failure.
EndOffsetNotBeforeStart ==
  [][/\ \A g \in Goroutines :
          /\ (pc[g] = "idle" /\ pc'[g] = "io") =>
               (loc'[g].started = Now /\ clock' = clock)
          /\ (pc[g] = "io" /\ pc'[g] = "emit") =>
               /\ loc'[g].started = loc[g].started
               /\ loc'[g].finished = Now'
               /\ loc'[g].started <= loc'[g].finished
          /\ (Emits(g) /\ Len(networkEvent) < capacity) =>
               /\ Last(networkEvent').T0 = loc[g].started
               /\ Last(networkEvent').T = loc[g].finished
     /\ clock' >= clock
     /\ \A k \in 1..Len(networkEvent') :
          /\ networkEvent'[k].T >= networkEvent'[k].T0
          /\ networkEvent'[k].T0 >= 0
          /\ networkEvent'[k].T <= Now'
     /\ annotation' # <<>> =>
          /\ annotation'[1].T = annotation'[1].T0
          /\ annotation'[1].Proto = "" /\ annotation'[1].Address = ""
          /\ annotation'[1].NumBytes = 0 /\ annotation'[1].Failure = <<>>
          /\ annotation'[1].Operation \in AnnotationOperations
    ]_vars

\* The channel holds the event of a ReadFrom that began at offset 1 and
\* ended at offset 2, and an annotation was made at offset 1.
EndOffsetNotBeforeStartWitness ==
  /\ \E k \in 1..Len(networkEvent) :
       /\ networkEvent[k].Operation = ReadFromOperation
       /\ networkEvent[k].T0 = 1 /\ networkEvent[k].T = 2
  /\ annotation # <<>>
  /\ annotation[1].T0 = 1 /\ annotation[1].T = 1

\* C24: every event in the channel, whichever wrapper sent it, carries the
\* index of the Trace and the items of its tags, in a slice that is never
\* nil (an empty one for a Trace without tags) and that has an array of its
\* own; and no step changes the index, the zero time or the tags of the
\* Trace.
EventsCarryIndexAndTags ==
  [][/\ Index' = Index /\ ZeroTime' = ZeroTime /\ tags' = tags
     /\ \A k \in 1..Len(networkEvent') :
          /\ networkEvent'[k].TransactionID = Index'
          /\ networkEvent'[k].Tags.items = tags'.items
          /\ ~networkEvent'[k].Tags.isNil
          /\ networkEvent'[k].Tags.array # tags'.array
    ]_vars

\* The channel of a Trace with index 2 and nil tags holds the events of a
\* Read and of a WriteTo, with index 2 and with empty tags that are not nil.
EventsCarryIndexAndTagsWitness ==
  /\ Index = 2 /\ tags.isNil
  /\ Len(networkEvent) = 2
  /\ networkEvent[1].Operation = ReadOperation
  /\ networkEvent[2].Operation = WriteToOperation
  /\ \A k \in 1..2 :
       /\ networkEvent[k].TransactionID = 2
       /\ networkEvent[k].Tags.items = <<>> /\ ~networkEvent[k].Tags.isNil

\* The key the claim files a Read from the remote address l.addr of network
\* l.network under.
ReadKey(l) == l.addr \o " " \o FamilyOf(l.network)

\* The goroutine g returns, in this step, from its Read.
ReadReturns(g) == loc[g].op = OpRead /\ pc[g] # "idle" /\ pc'[g] = "idle"

\* C25: a Read adds the byte count of its underlying call to the entry of
\* its remote address and protocol in its last step, after the select that
\* sends the event, whether the event was dropped or not and whether the
\* underlying call failed or not (a count of 0 makes the entry); it changes
\* no other entry, and no other step changes the map.  So each entry is the
\* sum of the counts of the Reads that have returned.
ReadAlwaysAccounts ==
  [][\A g \in Goroutines :
       /\ ReadReturns(g) =>
            /\ ReadKey(loc[g]) \in DOMAIN bytesReceivedMap'
            /\ bytesReceivedMap'[ReadKey(loc[g])] =
                 MapGet(bytesReceivedMap, ReadKey(loc[g])) + loc[g].und.count
            /\ DOMAIN bytesReceivedMap' = DOMAIN bytesReceivedMap \cup {ReadKey(loc[g])}
            /\ \A k \in DOMAIN bytesReceivedMap \ {ReadKey(loc[g])} :
                 bytesReceivedMap'[k] = bytesReceivedMap[k]
            /\ pc[g] # "emit"
            /\ ret'[g].dropped = loc[g].dropped
       /\ (loc[g].op = OpRead /\ ~ReadReturns(g)) => bytesReceivedMap' = bytesReceivedMap
       /\ (loc[g].op \in {OpWrite, OpWriteTo, OpNetworkEvents, OpFirstNetworkEventOrNil,
                           OpClone}) => bytesReceivedMap' = bytesReceivedMap
    ]_vars

\* Three Reads have returned: the first read 2 bytes, the second failed with
\* 0 bytes, the third failed after reading 2 bytes and found the channel
\* full; the entry holds 4 bytes.
ReadAlwaysAccountsWitness ==
  /\ Len(calls) = 3 /\ \A i \in 1..3 : calls[i].op = OpRead
  /\ pc[Owner] = "idle"
  /\ ret[Owner].op = OpRead /\ ret[Owner].dropped
  /\ ret[Owner].err # NoError /\ ret[Owner].count = 2
  /\ Len(networkEvent) = 2
  /\ networkEvent[1].NumBytes = 2 /\ networkEvent[1].Failure = <<>>
  /\ networkEvent[2].NumBytes = 0 /\ networkEvent[2].Failure # <<>>
  /\ DOMAIN bytesReceivedMap = {"1.2.3.4:443 tcp"}
  /\ bytesReceivedMap["1.2.3.4:443 tcp"] = 4

\* C26: the channel never holds more events than its capacity, which never
\* changes; the select of a wrapper that finds a free slot appends its event
\* to the channel, and the select drops the event only when it finds the
\* channel full.
DropOnlyWhenFull ==
  [][/\ Len(networkEvent') <= capacity' /\ capacity' = capacity
     /\ \A g \in Goroutines :
          Emits(g) =>
            /\ Len(networkEvent) < capacity =>
                 /\ Len(networkEvent') = Len(networkEvent) + 1
                 /\ Last(networkEvent').ref = loc[g].ref
                 /\ ~(IF pc'[g] = "idle" THEN ret'[g].dropped ELSE loc'[g].dropped)
            /\ (IF pc'[g] = "idle" THEN ret'[g].dropped ELSE loc'[g].dropped) =>
                 /\ Len(networkEvent) = capacity
                 /\ networkEvent' = networkEvent
    ]_vars

\* A goroutine has dropped the event of its ReadFrom on a full channel while
\* the Read of the other goroutine, whose event is in the channel, waits in
\* front of the mutex.
DropOnlyWhenFullWitness ==
  \E g, h \in Goroutines :
    /\ g # h
    /\ ret[g].op = OpReadFrom /\ ret[g].dropped /\ pc[g] = "idle"
    /\ loc[h].op = OpRead /\ pc[h] = "lock" /\ ~loc[h].dropped
    /\ Len(networkEvent) = capacity
    /\ Last(networkEvent).ref = loc[h].ref

\* The events the drain g is making, or the last drain g made, has received
\* from the channel.
Got(g) ==
  IF pc[g] = "drain" THEN loc[g].out
  ELSE IF ret[g].op \in DrainOps THEN ret[g].received
  ELSE <<>>

\* The events the last drain of g returned to its caller.
Returned(g) == Refs(ret[g].out) \cup Refs(ret[g].first)

\* Whether no two events of the sequence q are of the same underlying call.
NoRepeats(q) == Cardinality(Refs(q)) = Len(q)

\* C27, as claimed: every event a drain has taken from the channel is
\* returned by that drain to its caller.
EachEventReturnedByOneDrain ==
  \A g \in Goroutines :
    (pc[g] = "idle" /\ ret[g].op \in DrainOps) => Refs(ret[g].received) \subseteq Returned(g)

\* C27, amended: no event is received by two drains, also when they run
\* concurrently, and none stays in the channel once a drain has received
\* it; a drain during which no other drain received leaves the channel
\* empty and has received the events the channel held when it was called,
\* oldest first; NetworkEvents returns the events it received, and
\* FirstNetworkEventOrNil only the first of them, so that an event is
\* returned by one drain at most.
EachEventToOneDrain ==
  /\ NoRepeats(networkEvent)
  /\ \A g \in Goroutines :
       /\ NoRepeats(Got(g))
       /\ Refs(Got(g)) \cap Refs(networkEvent) = {}
       /\ \A h \in Goroutines \ {g} : Refs(Got(g)) \cap Refs(Got(h)) = {}
       /\ (pc[g] = "idle" /\ ret[g].op \in DrainOps) =>
            /\ ~ret[g].recvDuring =>
                 (ret[g].left = <<>> /\ IsPrefix(ret[g].snap, ret[g].received))
            /\ ret[g].op = OpNetworkEvents =>
                 (ret[g].out = ret[g].received /\ ret[g].first = <<>>)
            /\ ret[g].op = OpFirstNetworkEventOrNil =>
                 (ret[g].first = FirstOrNil(ret[g].received) /\ ret[g].out = <<>>)

\* Two drains that ran concurrently have returned: a NetworkEvents call
\* received one of the two events the channel held, and a
\* FirstNetworkEventOrNil call the other.
EachEventToOneDrainWitness ==
  \E g, h \in Goroutines :
    /\ g # h /\ pc[g] = "idle" /\ pc[h] = "idle"
    /\ ret[g].op = OpNetworkEvents /\ ret[h].op = OpFirstNetworkEventOrNil
    /\ ret[g].recvDuring /\ ret[h].recvDuring
    /\ Len(ret[g].snap) = 2 /\ ret[h].snap = ret[g].snap
    /\ Len(ret[g].out) = 1 /\ Len(ret[h].received) = 1
    /\ ret[h].first # <<>> /\ ret[h].first[1].ref # ret[g].out[1].ref
    /\ networkEvent = <<>>

\* C28: the connection NewUTLSConn returns has an engine configuration
\* with the five fields of the allow-list as the caller gave them and with
\* every other field at its default; the engine connection and the
\* connection itself refer to the raw connection the caller gave; and no
\* testable handshake is set, so that the handshake is the engine's.
UConfigCopiesAllowList ==
  (newConn.called /\ ~newConn.conn.isNil) =>
    /\ newConn.err = NilError
    /\ \A f \in AllowList : newConn.conn.UConn.config[f] = config[f]
    /\ \A f \in DOMAIN newConn.conn.UConn.config \ AllowList :
         newConn.conn.UConn.config[f] = UConfigDefaults[f]
    /\ newConn.conn.nc = rawConn
    /\ newConn.conn.UConn.conn = rawConn
    /\ newConn.conn.testableHandshake = NilFunc
    /\ handshakefn(newConn.conn) = "UConn.Handshake"

\* A connection was made over the second raw connection from a
\* configuration with all five fields of the allow-list set.
UConfigCopiesAllowListWitness ==
  /\ newConn.called /\ ~newConn.conn.isNil
  /\ rawConn = "conn#2" /\ newConn.conn.nc = "conn#2"
  /\ config["ServerName"] = "dns.google"
  /\ config["NextProtos"] = Slice(<<"h2", "http/1.1">>)
  /\ config["RootCAs"] = "*x509.CertPool"
  /\ config["InsecureSkipVerify"] /\ config["DynamicRecordSizingDisabled"]
  /\ newConn.conn.UConn.config["ServerName"] = "dns.google"

\* The ports the documentation of ipInfoToEndpoints chooses for the URL.
DocumentedPorts ==
  IF URL.Port # <<>> THEN {URL.Port}
  ELSE IF URL.Scheme = "https" THEN {Port443}
  ELSE IF URL.Scheme = "http" THEN {Port80, Port443}
  ELSE {}

\* The addresses of the map that are not flagged as bogons.
NonBogons == {a \in DOMAIN ipinfo : THIPInfoFlagIsBogon \notin ipinfo[a].Flags}

\* C29: ipInfoToEndpoints returns one endpoint for each address that is
\* not flagged as a bogon and each port chosen as documented (the port of
\* the URL alone if it has one; else 443 for https; else 80 and 443 for
\* http; else none), and no other endpoint; an endpoint is marked TLS
\* exactly when its port is 443; and the endpoints are in ascending order
\* of their endpoint strings.
EndpointsAsDocumented ==
  endpoints.called =>
    LET out == endpoints.out
    IN  /\ Len(out) = Cardinality(NonBogons) * Cardinality(DocumentedPorts)
        /\ \A a \in NonBogons, p \in DocumentedPorts :
             \E k \in 1..Len(out) :
               out[k] = [Addr |-> a, Epnt |-> JoinHostPort(a, p), TLS |-> (p = Port443)]
        /\ \A k \in 1..Len(out) :
             \E a \in NonBogons, p \in DocumentedPorts :
               out[k] = [Addr |-> a, Epnt |-> JoinHostPort(a, p), TLS |-> (p = Port443)]
        /\ \A i, j \in 1..Len(out) : i < j => Compare(out[i].Epnt, out[j].Epnt) < 0

\* For an http URL without a port and a map with two addresses that are not
\* bogons and one that is, the endpoints are those of 1.1.1.10 and then
\* those of 1.1.1.1, each with port 443 before port 80.
EndpointsAsDocumentedWitness ==
  /\ endpoints.called
  /\ URL = [Scheme |-> "http", Port |-> <<>>]
  /\ DOMAIN ipinfo = {Addresses[1], Addresses[2], Addresses[3]}
  /\ NonBogons = {Addresses[1], Addresses[2]}
  /\ Len(endpoints.out) = 4
  /\ endpoints.out[1] =
       [Addr |-> Addresses[2], Epnt |-> Addresses[2] \o <<":">> \o Port443, TLS |-> TRUE]
  /\ endpoints.out[2] =
       [Addr |-> Addresses[2], Epnt |-> Addresses[2] \o <<":">> \o Port80, TLS |-> FALSE]
  /\ endpoints.out[3].Epnt = Addresses[1] \o <<":">> \o Port443
  /\ endpoints.out[4].Epnt = Addresses[1] \o <<":">> \o Port80

====
